---- MODULE Spec2Model ----
(***************************************************************************)
(* A model of the trypillia-language interpreter pipeline:                 *)
(*   Lexer (character scanner)  ->  Parser (recursive descent)             *)
(*   ->  SemanticVisitor (scope walk)  ->  InterpreterVisitor (evaluator). *)
(* Strings of the program (source text, lexemes, printed lines) are        *)
(* sequences of one-character strings, so that scanning, number parsing    *)
(* and number formatting are computed character by character.              *)
(***************************************************************************)
EXTENDS Integers, Sequences, FiniteSets, TLC

VARIABLES
    phase,      \* position of main(): "parse", "analyze", "generate", "execute",
                \* "run", "done";
                \* "lex" while a text is only scanned; "memory" and "destroyed"
                \* while a MemoryManager is used on its own
    parser,     \* the Parser object: its Lexer, currentToken, and the sink's messages
    decls,      \* Parser::parse's local vector `declarations`
    ast,        \* the ProgramNode handed to analyze(), generate() and execute()
    sem,        \* the SemanticVisitor: scope chain, next declaration, messages
    codegen,    \* what CodeGenerator::generate wrote to std::cout, as lines, and
                \* the messages it reported
    interp,     \* the InterpreterVisitor: environments, output, next declaration
    memory      \* a MemoryManager and the heap blocks that malloc has handed out

vars == <<phase, parser, decls, ast, sem, codegen, interp, memory>>

(***************************************************************************)
(* Characters                                                              *)
(***************************************************************************)
NUL == "\\0"
NL == "\n"
QUOTE == "\""

Digit == {"0", "1", "2", "3", "4", "5", "6", "7", "8", "9"}

Alpha ==
    {"a", "b", "c", "d", "e", "f", "g", "h", "i", "j", "k", "l", "m",
     "n", "o", "p", "q", "r", "s", "t", "u", "v", "w", "x", "y", "z",
     "A", "B", "C", "D", "E", "F", "G", "H", "I", "J", "K", "L", "M",
     "N", "O", "P", "Q", "R", "S", "T", "U", "V", "W", "X", "Y", "Z"}

isalpha(c) == c \in Alpha
isdigit(c) == c \in Digit
isalnum(c) == c \in Alpha \cup Digit

(***************************************************************************)
(* Tokens                                                                  *)
(***************************************************************************)
Token(type, lexeme, line) == [type |-> type, lexeme |-> lexeme, line |-> line]

keywords ==
    (<<"c", "l", "a", "s", "s">> :> "CLASS")
    @@ (<<"f", "n">> :> "FN")
    @@ (<<"l", "e", "t">> :> "LET")
    @@ (<<"v", "i", "r", "t", "u", "a", "l">> :> "VIRTUAL")
    @@ (<<"o", "v", "e", "r", "r", "i", "d", "e">> :> "OVERRIDE")
    @@ (<<"p", "r", "i", "n", "t">> :> "PRINT")
    @@ (<<"i", "f">> :> "IF")
    @@ (<<"e", "l", "s", "e">> :> "ELSE")
    @@ (<<"w", "h", "i", "l", "e">> :> "WHILE")

(***************************************************************************)
(* Lexer.  A lexer is [source, currentIndex, line]; currentIndex counts    *)
(* the characters consumed (0-based index of the next one).                *)
(***************************************************************************)
Lexer(source) == [source |-> source, currentIndex |-> 0, line |-> 1]

Lexer_isAtEnd(lx) == lx.currentIndex >= Len(lx.source)

Lexer_peek(lx) ==
    IF Lexer_isAtEnd(lx) THEN NUL ELSE lx.source[lx.currentIndex + 1]

Lexer_peekNext(lx) ==
    IF lx.currentIndex + 1 >= Len(lx.source) THEN NUL
    ELSE lx.source[lx.currentIndex + 2]

\* advance() returns source[currentIndex++]; the character read is Lexer_peek
\* of the lexer before the call whenever the lexer is not at the end.
Lexer_advance(lx) == [lx EXCEPT !.currentIndex = @ + 1]

\* match(expected): [ok, lx]
Lexer_match(lx, expected) ==
    IF Lexer_isAtEnd(lx) \/ lx.source[lx.currentIndex + 1] # expected
    THEN [ok |-> FALSE, lx |-> lx]
    ELSE [ok |-> TRUE, lx |-> Lexer_advance(lx)]

RECURSIVE Lexer_skipWhitespace(_)
Lexer_skipWhitespace(lx) ==
    LET c == Lexer_peek(lx) IN
    IF c \in {" ", "\r", "\t"} THEN Lexer_skipWhitespace(Lexer_advance(lx))
    ELSE IF c = NL
         THEN Lexer_skipWhitespace(Lexer_advance([lx EXCEPT !.line = @ + 1]))
         ELSE lx

\* the loops `while (pred(peek())) advance();`
RECURSIVE Lexer_advanceWhile(_, _)
Lexer_advanceWhile(lx, charset) ==
    IF Lexer_peek(lx) \in charset
    THEN Lexer_advanceWhile(Lexer_advance(lx), charset)
    ELSE lx

Substr(source, start, count) == SubSeq(source, start + 1, start + count)

\* identifier(): called after the first character was consumed
Lexer_identifier(lx) ==
    LET start == lx.currentIndex - 1
        l1 == Lexer_advanceWhile(lx, Alpha \cup Digit \cup {"_"})
        text == Substr(l1.source, start, l1.currentIndex - start)
    IN  IF text \in DOMAIN keywords
        THEN [tok |-> Token(keywords[text], text, l1.line), lx |-> l1]
        ELSE [tok |-> Token("IDENTIFIER", text, l1.line), lx |-> l1]

\* number(): called after the first digit was consumed
Lexer_number(lx) ==
    LET start == lx.currentIndex - 1
        l1 == Lexer_advanceWhile(lx, Digit)
        l2 == IF Lexer_peek(l1) = "." /\ isdigit(Lexer_peekNext(l1))
              THEN Lexer_advanceWhile(Lexer_advance(l1), Digit)
              ELSE l1
        text == Substr(l2.source, start, l2.currentIndex - start)
    IN  [tok |-> Token("NUMBER", text, l2.line), lx |-> l2]

\* the loop of string(): consume up to the closing quote or the end
RECURSIVE Lexer_stringLoop(_)
Lexer_stringLoop(lx) ==
    IF Lexer_peek(lx) # QUOTE /\ ~Lexer_isAtEnd(lx)
    THEN Lexer_stringLoop(
             Lexer_advance(IF Lexer_peek(lx) = NL
                           THEN [lx EXCEPT !.line = @ + 1] ELSE lx))
    ELSE lx

\* string() putting the cursor back on the opening quote when the string
\* is not terminated
Lexer_string_rewinding(lx) ==
    LET start == lx.currentIndex
        l1 == Lexer_stringLoop(lx)
    IN  IF Lexer_isAtEnd(l1)
        THEN [tok |-> Token("UNKNOWN", <<>>, l1.line),
              lx |-> [l1 EXCEPT !.currentIndex = start - 1]]
        ELSE LET l2 == Lexer_advance(l1)
                 text == Substr(l2.source, start, l2.currentIndex - start - 1)
             IN  [tok |-> Token("STRING", text, l2.line), lx |-> l2]

\* string() consuming a closing quote without the test for the end
Lexer_string_unchecked(lx) ==
    LET start == lx.currentIndex
        l1 == Lexer_stringLoop(lx)
        l2 == Lexer_advance(l1)
        text == Substr(l2.source, start, l2.currentIndex - start - 1)
    IN  [tok |-> Token("STRING", text, l2.line), lx |-> l2]

\* string() keeping the closing quote in the lexeme
Lexer_string_quoted(lx) ==
    LET start == lx.currentIndex
        l1 == Lexer_stringLoop(lx)
    IN  IF Lexer_isAtEnd(l1)
        THEN [tok |-> Token("UNKNOWN", <<>>, l1.line), lx |-> l1]
        ELSE LET l2 == Lexer_advance(l1)
                 text == Substr(l2.source, start, l2.currentIndex - start)
             IN  [tok |-> Token("STRING", text, l2.line), lx |-> l2]

\* string(): called after the opening quote was consumed
Lexer_string(lx) ==
    LET start == lx.currentIndex
        l1 == Lexer_stringLoop(lx)
    IN  IF Lexer_isAtEnd(l1)
        THEN [tok |-> Token("UNKNOWN", <<>>, l1.line), lx |-> l1]
        ELSE LET l2 == Lexer_advance(l1)
                 text == Substr(l2.source, start, l2.currentIndex - start - 1)
             IN  [tok |-> Token("STRING", text, l2.line), lx |-> l2]

\* the comment loop `while (peek() != '\n' && !isAtEnd()) advance();`
RECURSIVE Lexer_skipComment(_)
Lexer_skipComment(lx) ==
    IF Lexer_peek(lx) # NL /\ ~Lexer_isAtEnd(lx)
    THEN Lexer_skipComment(Lexer_advance(lx))
    ELSE lx

SingleCharTokens ==
    ("(" :> "LPAREN") @@ (")" :> "RPAREN") @@ ("{" :> "LBRACE")
    @@ ("}" :> "RBRACE") @@ ("," :> "COMMA") @@ ("." :> "DOT")
    @@ (";" :> "SEMICOLON") @@ ("+" :> "PLUS") @@ ("-" :> "MINUS")
    @@ ("*" :> "STAR")

\* one- or two-character operators: <<type alone, type when followed by '='>>
TwoCharTokens ==
    ("=" :> <<"ASSIGN", "EQUAL_EQUAL">>) @@ ("!" :> <<"BANG", "BANG_EQUAL">>)
    @@ ("<" :> <<"LESS", "LESS_EQUAL">>) @@ (">" :> <<"GREATER", "GREATER_EQUAL">>)

\* nextToken(): [tok, lx]
RECURSIVE Lexer_nextToken(_)
Lexer_nextToken(lx0) ==
    LET lw == Lexer_skipWhitespace(lx0) IN
    IF Lexer_isAtEnd(lw)
    THEN [tok |-> Token("END_OF_FILE", <<>>, lw.line), lx |-> lw]
    ELSE
    LET c == Lexer_peek(lw)
        lx == Lexer_advance(lw)
    IN  IF isalpha(c) \/ c = "_" THEN Lexer_identifier(lx)
        ELSE IF isdigit(c) THEN Lexer_number(lx)
        ELSE IF c \in DOMAIN SingleCharTokens
             THEN [tok |-> Token(SingleCharTokens[c], <<c>>, lx.line), lx |-> lx]
        ELSE IF c = "/"
             THEN LET m == Lexer_match(lx, "/") IN
                  IF m.ok THEN Lexer_nextToken(Lexer_skipComment(m.lx))
                  ELSE [tok |-> Token("SLASH", <<"/">>, lx.line), lx |-> lx]
        ELSE IF c \in DOMAIN TwoCharTokens
             THEN LET m == Lexer_match(lx, "=") IN
                  IF m.ok
                  THEN [tok |-> Token(TwoCharTokens[c][2], <<c, "=">>, lx.line),
                        lx |-> m.lx]
                  ELSE [tok |-> Token(TwoCharTokens[c][1], <<c>>, lx.line),
                        lx |-> lx]
        ELSE IF c = QUOTE THEN Lexer_string(lx)
        ELSE [tok |-> Token("UNKNOWN", <<c>>, lx.line), lx |-> lx]

(***************************************************************************)
(* Tree nodes (ast/AST.h is used through its constructors and fields).     *)
(* A node is a record tagged by the name of its class; nullptr is the      *)
(* absent child (no initializer, no else branch).                          *)
(***************************************************************************)
nullptr == [kind |-> "nullptr"]

LiteralExpr(value) == [kind |-> "LiteralExpr", value |-> value]
VariableExpr(name) == [kind |-> "VariableExpr", name |-> name]
AssignExpr(name, value) == [kind |-> "AssignExpr", name |-> name, value |-> value]
BinaryExpr(left, op, right) ==
    [kind |-> "BinaryExpr", left |-> left, op |-> op, right |-> right]
CallExpr(callee, paren, arguments) ==
    [kind |-> "CallExpr", callee |-> callee, paren |-> paren, arguments |-> arguments]
ExpressionStmt(expression) == [kind |-> "ExpressionStmt", expression |-> expression]
PrintStmt(expression) == [kind |-> "PrintStmt", expression |-> expression]
VarStmt(name, initializer) ==
    [kind |-> "VarStmt", name |-> name, initializer |-> initializer]
BlockStmt(statements) == [kind |-> "BlockStmt", statements |-> statements]
IfStmt(condition, thenBranch, elseBranch) ==
    [kind |-> "IfStmt", condition |-> condition, thenBranch |-> thenBranch,
     elseBranch |-> elseBranch]
WhileStmt(condition, body) ==
    [kind |-> "WhileStmt", condition |-> condition, body |-> body]
FunctionNode(name, params, body) ==
    [kind |-> "FunctionNode", name |-> name, params |-> params, body |-> body]
ClassNode(name, methods) == [kind |-> "ClassNode", name |-> name, methods |-> methods]
ProgramNode(declarations) == [kind |-> "ProgramNode", declarations |-> declarations]

(***************************************************************************)
(* Parser.  A parser is [lexer, currentToken, reported]; `reported` holds  *)
(* the messages it has passed to ErrorHandling::reportError.  A parsing    *)
(* method returns [p, node, thrown]: the parser afterwards, the node built *)
(* and the std::runtime_error message in flight (NoThrow when none).       *)
(***************************************************************************)
NoThrow == <<>>

Returns(p, node) == [p |-> p, node |-> node, thrown |-> NoThrow]
Throws(p, message) == [p |-> p, node |-> nullptr, thrown |-> message]

Parser_advance(p) ==
    LET r == Lexer_nextToken(p.lexer)
    IN  [p EXCEPT !.lexer = r.lx, !.currentToken = r.tok]

\* the constructor pulls the first token
Parser(lexer) ==
    Parser_advance([lexer |-> lexer,
                    currentToken |-> Token("UNKNOWN", <<>>, 0),
                    reported |-> <<>>])

\* invoke(method, p, arg) is the call p.method(arg) of a Parser method
RECURSIVE invoke(_, _, _)

Parser_consume(p, type) ==
    IF p.currentToken.type = type
    THEN Returns(invoke("advance", p, nullptr), nullptr)
    ELSE LET message == <<"Expected token type", type, "got", p.currentToken.type>>
         IN  Throws([p EXCEPT !.reported = Append(@, message)], message)

\* match(type) and match({types}): [ok, p]
Parser_matchAny(p, types) ==
    IF p.currentToken.type \in types
    THEN [ok |-> TRUE, p |-> invoke("advance", p, nullptr)]
    ELSE [ok |-> FALSE, p |-> p]

Parser_match(p, type) == invoke("matchAny", p, {type})

\* primary() returning without a node where it raises "Expected expression"
Parser_primary_silent(p) ==
    LET lit == invoke("matchAny", p, {"NUMBER"})
        str == invoke("matchAny", p, {"STRING"})
        idn == invoke("matchAny", p, {"IDENTIFIER"})
        par == invoke("matchAny", p, {"LPAREN"})
    IN  IF lit.ok THEN Returns(lit.p, LiteralExpr(lit.p.currentToken))
        ELSE IF str.ok THEN Returns(str.p, LiteralExpr(str.p.currentToken))
        ELSE IF idn.ok THEN Returns(idn.p, VariableExpr(idn.p.currentToken))
        ELSE IF par.ok
             THEN LET e == invoke("expression", par.p, nullptr) IN
                  IF e.thrown # NoThrow THEN e
                  ELSE LET c == invoke("consume", e.p, "RPAREN") IN
                       IF c.thrown # NoThrow THEN c ELSE Returns(c.p, e.node)
        ELSE Returns(p, nullptr)

\* Primary expressions: literals, identifiers, grouped expressions.  The
\* node is built from currentToken as it is after match() has advanced.
Parser_primary(p) ==
    LET lit == invoke("matchAny", p, {"NUMBER"})
        str == invoke("matchAny", p, {"STRING"})
        idn == invoke("matchAny", p, {"IDENTIFIER"})
        par == invoke("matchAny", p, {"LPAREN"})
    IN  IF lit.ok THEN Returns(lit.p, LiteralExpr(lit.p.currentToken))
        ELSE IF str.ok THEN Returns(str.p, LiteralExpr(str.p.currentToken))
        ELSE IF idn.ok THEN Returns(idn.p, VariableExpr(idn.p.currentToken))
        ELSE IF par.ok
             THEN LET e == invoke("expression", par.p, nullptr) IN
                  IF e.thrown # NoThrow THEN e
                  ELSE LET c == invoke("consume", e.p, "RPAREN") IN
                       IF c.thrown # NoThrow THEN c ELSE Returns(c.p, e.node)
        ELSE Throws(p, <<"Expected expression">>)

\* the do-while of finishCall: node is the vector `arguments`
Parser_arguments(p, arguments) ==
    LET e == invoke("expression", p, nullptr) IN
    IF e.thrown # NoThrow THEN e
    ELSE LET m == invoke("match", e.p, "COMMA") IN
         IF m.ok THEN invoke("arguments", m.p, Append(arguments, e.node))
         ELSE Returns(m.p, Append(arguments, e.node))

Parser_finishCall(p, callee) ==
    LET a == IF p.currentToken.type # "RPAREN"
             THEN invoke("arguments", p, <<>>)
             ELSE Returns(p, <<>>)
    IN  IF a.thrown # NoThrow THEN a
        ELSE LET paren == a.p.currentToken
                 c == invoke("consume", a.p, "RPAREN")
             IN  IF c.thrown # NoThrow THEN c
                 ELSE Returns(c.p, CallExpr(callee, paren, a.node))

Parser_callLoop(p, expr) ==
    LET m == invoke("match", p, "LPAREN") IN
    IF m.ok
    THEN LET f == invoke("finishCall", m.p, expr) IN
         IF f.thrown # NoThrow THEN f ELSE invoke("callLoop", f.p, f.node)
    ELSE Returns(p, expr)

Parser_call(p) ==
    LET e == invoke("primary", p, nullptr) IN
    IF e.thrown # NoThrow THEN e ELSE invoke("callLoop", e.p, e.node)

Parser_unary(p) == invoke("call", p, nullptr)

\* the loop of factor(): match() consumes the operator, then `op` is read
\* from currentToken and advance() is called once more
Parser_factorLoop(p, expr) ==
    LET m == invoke("matchAny", p, {"STAR", "SLASH"}) IN
    IF m.ok
    THEN LET op == m.p.currentToken
             right == invoke("unary", invoke("advance", m.p, nullptr), nullptr)
         IN  IF right.thrown # NoThrow THEN right
             ELSE invoke("factorLoop", right.p, BinaryExpr(expr, op, right.node))
    ELSE Returns(p, expr)

Parser_factor(p) ==
    LET e == invoke("unary", p, nullptr) IN
    IF e.thrown # NoThrow THEN e ELSE invoke("factorLoop", e.p, e.node)

Parser_termLoop(p, expr) ==
    LET m == invoke("matchAny", p, {"PLUS", "MINUS"}) IN
    IF m.ok
    THEN LET op == m.p.currentToken
             right == invoke("factor", invoke("advance", m.p, nullptr), nullptr)
         IN  IF right.thrown # NoThrow THEN right
             ELSE invoke("termLoop", right.p, BinaryExpr(expr, op, right.node))
    ELSE Returns(p, expr)

Parser_term(p) ==
    LET e == invoke("factor", p, nullptr) IN
    IF e.thrown # NoThrow THEN e ELSE invoke("termLoop", e.p, e.node)

Parser_comparison(p) == invoke("term", p, nullptr)

Parser_equality(p) == invoke("comparison", p, nullptr)

Parser_assignment(p) ==
    LET e == invoke("equality", p, nullptr) IN
    IF e.thrown # NoThrow THEN e
    ELSE LET m == invoke("match", e.p, "ASSIGN") IN
         IF m.ok
         THEN LET value == invoke("assignment", m.p, nullptr) IN
              IF value.thrown # NoThrow THEN value
              ELSE IF e.node.kind = "VariableExpr"
                   THEN Returns(value.p, AssignExpr(e.node.name, value.node))
                   ELSE Throws(value.p, <<"Invalid assignment target">>)
         ELSE e

Parser_expression(p) == invoke("assignment", p, nullptr)

Parser_expressionStatement(p) ==
    LET e == invoke("expression", p, nullptr) IN
    IF e.thrown # NoThrow THEN e
    ELSE LET c == invoke("consume", e.p, "SEMICOLON") IN
         IF c.thrown # NoThrow THEN c ELSE Returns(c.p, ExpressionStmt(e.node))

Parser_printStatement(p) ==
    LET e == invoke("expression", p, nullptr) IN
    IF e.thrown # NoThrow THEN e
    ELSE LET c == invoke("consume", e.p, "SEMICOLON") IN
         IF c.thrown # NoThrow THEN c ELSE Returns(c.p, PrintStmt(e.node))

\* the loop `while (currentToken is neither '}' nor end) push(declaration())`
\* of block() and of parseFunction(): node is the vector built
Parser_statements(p, statements) ==
    IF p.currentToken.type # "RBRACE" /\ p.currentToken.type # "END_OF_FILE"
    THEN LET d == invoke("declaration", p, nullptr) IN
         IF d.thrown # NoThrow THEN d
         ELSE invoke("statements", d.p, Append(statements, d.node))
    ELSE Returns(p, statements)

Parser_block(p) ==
    LET b == invoke("statements", p, <<>>) IN
    IF b.thrown # NoThrow THEN b
    ELSE LET c == invoke("consume", b.p, "RBRACE") IN
         IF c.thrown # NoThrow THEN c ELSE Returns(c.p, BlockStmt(b.node))

Parser_ifStatement(p) ==
    LET c1 == invoke("consume", p, "LPAREN") IN
    IF c1.thrown # NoThrow THEN c1 ELSE
    LET condition == invoke("expression", c1.p, nullptr) IN
    IF condition.thrown # NoThrow THEN condition ELSE
    LET c2 == invoke("consume", condition.p, "RPAREN") IN
    IF c2.thrown # NoThrow THEN c2 ELSE
    LET thenBranch == invoke("statement", c2.p, nullptr) IN
    IF thenBranch.thrown # NoThrow THEN thenBranch ELSE
    LET m == invoke("match", thenBranch.p, "ELSE") IN
    IF m.ok
    THEN LET elseBranch == invoke("statement", m.p, nullptr) IN
         IF elseBranch.thrown # NoThrow THEN elseBranch
         ELSE Returns(elseBranch.p,
                      IfStmt(condition.node, thenBranch.node, elseBranch.node))
    ELSE Returns(m.p, IfStmt(condition.node, thenBranch.node, nullptr))

Parser_whileStatement(p) ==
    LET c1 == invoke("consume", p, "LPAREN") IN
    IF c1.thrown # NoThrow THEN c1 ELSE
    LET condition == invoke("expression", c1.p, nullptr) IN
    IF condition.thrown # NoThrow THEN condition ELSE
    LET c2 == invoke("consume", condition.p, "RPAREN") IN
    IF c2.thrown # NoThrow THEN c2 ELSE
    LET body == invoke("statement", c2.p, nullptr) IN
    IF body.thrown # NoThrow THEN body
    ELSE Returns(body.p, WhileStmt(condition.node, body.node))

Parser_statement(p) ==
    LET mIf == invoke("match", p, "IF")
        mPrint == invoke("match", p, "PRINT")
        mWhile == invoke("match", p, "WHILE")
        mBrace == invoke("match", p, "LBRACE")
    IN  IF mIf.ok THEN invoke("ifStatement", mIf.p, nullptr)
        ELSE IF mPrint.ok THEN invoke("printStatement", mPrint.p, nullptr)
        ELSE IF mWhile.ok THEN invoke("whileStatement", mWhile.p, nullptr)
        ELSE IF mBrace.ok THEN invoke("block", mBrace.p, nullptr)
        ELSE invoke("expressionStatement", p, nullptr)

Parser_varDeclaration(p) ==
    LET name == p.currentToken
        c1 == invoke("consume", p, "IDENTIFIER")
    IN  IF c1.thrown # NoThrow THEN c1 ELSE
        LET m == invoke("match", c1.p, "ASSIGN")
            initializer == IF m.ok THEN invoke("expression", m.p, nullptr)
                           ELSE Returns(m.p, nullptr)
        IN  IF initializer.thrown # NoThrow THEN initializer ELSE
            LET c2 == invoke("consume", initializer.p, "SEMICOLON") IN
            IF c2.thrown # NoThrow THEN c2
            ELSE Returns(c2.p, VarStmt(name, initializer.node))

\* the do-while of parseFunction over the parameter list
Parser_parameters(p, parameters) ==
    LET param == p.currentToken
        c == invoke("consume", p, "IDENTIFIER")
    IN  IF c.thrown # NoThrow THEN c
        ELSE LET m == invoke("match", c.p, "COMMA") IN
             IF m.ok THEN invoke("parameters", m.p, Append(parameters, param.lexeme))
             ELSE Returns(m.p, Append(parameters, param.lexeme))

Parser_parseFunction(p) ==
    LET c0 == invoke("consume", p, "FN") IN
    IF c0.thrown # NoThrow THEN c0 ELSE
    LET name == c0.p.currentToken
        c1 == invoke("consume", c0.p, "IDENTIFIER")
    IN
    IF c1.thrown # NoThrow THEN c1 ELSE
    LET c2 == invoke("consume", c1.p, "LPAREN") IN
    IF c2.thrown # NoThrow THEN c2 ELSE
    LET parameters == IF c2.p.currentToken.type # "RPAREN"
                      THEN invoke("parameters", c2.p, <<>>)
                      ELSE Returns(c2.p, <<>>)
    IN
    IF parameters.thrown # NoThrow THEN parameters ELSE
    LET c3 == invoke("consume", parameters.p, "RPAREN") IN
    IF c3.thrown # NoThrow THEN c3 ELSE
    LET c4 == invoke("consume", c3.p, "LBRACE") IN
    IF c4.thrown # NoThrow THEN c4 ELSE
    LET body == invoke("statements", c4.p, <<>>) IN
    IF body.thrown # NoThrow THEN body ELSE
    LET c5 == invoke("consume", body.p, "RBRACE") IN
    IF c5.thrown # NoThrow THEN c5
    ELSE Returns(c5.p, FunctionNode(name.lexeme, parameters.node, body.node))

\* the loop of parseClass over the class body: node is the vector `methods`
Parser_methods(p, methods) ==
    IF p.currentToken.type # "RBRACE" /\ p.currentToken.type # "END_OF_FILE"
    THEN IF p.currentToken.type = "FN"
         THEN LET f == invoke("parseFunction", p, nullptr) IN
              IF f.thrown # NoThrow THEN f
              ELSE invoke("methods", f.p, Append(methods, f.node))
         ELSE invoke("methods", invoke("advance", p, nullptr), methods)
    ELSE Returns(p, methods)

Parser_parseClass(p) ==
    LET c0 == invoke("consume", p, "CLASS") IN
    IF c0.thrown # NoThrow THEN c0 ELSE
    LET name == c0.p.currentToken
        c1 == invoke("consume", c0.p, "IDENTIFIER")
    IN
    IF c1.thrown # NoThrow THEN c1 ELSE
    LET c2 == invoke("consume", c1.p, "LBRACE") IN
    IF c2.thrown # NoThrow THEN c2 ELSE
    LET methods == invoke("methods", c2.p, <<>>) IN
    IF methods.thrown # NoThrow THEN methods ELSE
    LET c3 == invoke("consume", methods.p, "RBRACE") IN
    IF c3.thrown # NoThrow THEN c3
    ELSE Returns(c3.p, ClassNode(name.lexeme, methods.node))

Parser_declaration(p) ==
    LET mClass == invoke("match", p, "CLASS")
        mFn == invoke("match", p, "FN")
        mLet == invoke("match", p, "LET")
    IN  IF mClass.ok THEN invoke("parseClass", mClass.p, nullptr)
        ELSE IF mFn.ok THEN invoke("parseFunction", mFn.p, nullptr)
        ELSE IF mLet.ok THEN invoke("varDeclaration", mLet.p, nullptr)
        ELSE invoke("statement", p, nullptr)

\* Error recovery
SyncKeywords == {"CLASS", "FN", "LET", "IF", "WHILE", "PRINT"}

Parser_synchronizeLoop(p) ==
    IF p.currentToken.type # "END_OF_FILE"
    THEN IF p.currentToken.type = "SEMICOLON" THEN invoke("advance", p, nullptr)
         ELSE IF p.currentToken.type \in SyncKeywords THEN p
         ELSE invoke("synchronizeLoop", invoke("advance", p, nullptr), nullptr)
    ELSE p

Parser_synchronize(p) == invoke("synchronizeLoop", invoke("advance", p, nullptr), nullptr)

\* the call of a Parser method by its name
invoke(method, p, arg) ==
    CASE method = "advance" -> Parser_advance(p)
      [] method = "consume" -> Parser_consume(p, arg)
      [] method = "matchAny" -> Parser_matchAny(p, arg)
      [] method = "match" -> Parser_match(p, arg)
      [] method = "primary" -> Parser_primary(p)
      [] method = "arguments" -> Parser_arguments(p, arg)
      [] method = "finishCall" -> Parser_finishCall(p, arg)
      [] method = "callLoop" -> Parser_callLoop(p, arg)
      [] method = "call" -> Parser_call(p)
      [] method = "unary" -> Parser_unary(p)
      [] method = "factorLoop" -> Parser_factorLoop(p, arg)
      [] method = "factor" -> Parser_factor(p)
      [] method = "termLoop" -> Parser_termLoop(p, arg)
      [] method = "term" -> Parser_term(p)
      [] method = "comparison" -> Parser_comparison(p)
      [] method = "equality" -> Parser_equality(p)
      [] method = "assignment" -> Parser_assignment(p)
      [] method = "expression" -> Parser_expression(p)
      [] method = "expressionStatement" -> Parser_expressionStatement(p)
      [] method = "printStatement" -> Parser_printStatement(p)
      [] method = "statements" -> Parser_statements(p, arg)
      [] method = "block" -> Parser_block(p)
      [] method = "ifStatement" -> Parser_ifStatement(p)
      [] method = "whileStatement" -> Parser_whileStatement(p)
      [] method = "statement" -> Parser_statement(p)
      [] method = "varDeclaration" -> Parser_varDeclaration(p)
      [] method = "parameters" -> Parser_parameters(p, arg)
      [] method = "parseFunction" -> Parser_parseFunction(p)
      [] method = "methods" -> Parser_methods(p, arg)
      [] method = "parseClass" -> Parser_parseClass(p)
      [] method = "declaration" -> Parser_declaration(p)
      [] method = "synchronizeLoop" -> Parser_synchronizeLoop(p)
      [] method = "synchronize" -> Parser_synchronize(p)

(***************************************************************************)
(* Runtime values: std::variant<nullptr_t, bool, double, string,           *)
(* Function, Class, Instance>.                                             *)
(*                                                                         *)
(* A double is an IEEE 754 binary64 number.  A finite one is kept as       *)
(* [sign, m, e] for (-1)^sign * m * 2^e with m odd, or m zero and e zero   *)
(* for the two zeros.  m is a natural number of at most Precision bits,    *)
(* written as its limbs of LimbBits bits, the least significant first and  *)
(* the most significant not 0 (<<>> is 0).  Every operation computes the   *)
(* exact result and rounds it once, to nearest with ties to even, as the   *)
(* hardware and the C library do.  The loops over limbs split their range  *)
(* in halves.                                                              *)
(***************************************************************************)
Nil == [tag |-> "nil"]
Bool(b) == [tag |-> "bool", b |-> b]
String(str) == [tag |-> "string", str |-> str]

DigitValue ==
    ("0" :> 0) @@ ("1" :> 1) @@ ("2" :> 2) @@ ("3" :> 3) @@ ("4" :> 4)
    @@ ("5" :> 5) @@ ("6" :> 6) @@ ("7" :> 7) @@ ("8" :> 8) @@ ("9" :> 9)

DigitChar == <<"0", "1", "2", "3", "4", "5", "6", "7", "8", "9">>

LimbBits == 15
Radix == 2^LimbBits
Precision == 53
MinExponent == -1074
MaxExponent == 1024

Min(i, j) == IF i < j THEN i ELSE j
Max(i, j) == IF i < j THEN j ELSE i

Limb(a, i) == IF 1 <= i /\ i <= Len(a) THEN a[i] ELSE 0

\* a without its most significant limbs that are 0
Trim(a) == SubSeq(a, 1, Cardinality({i \in 1..Len(a) : \E j \in i..Len(a) : a[j] # 0}))

\* limbs lo..hi of a * k + b * j + carry, then the carry out of limb hi; for
\* 0 <= k <= Radix, j in {-1, 0, 1} and a carry of at most Radix
RECURSIVE BigLinearRange(_, _, _, _, _, _, _)
BigLinearRange(a, k, b, j, lo, hi, carry) ==
    IF lo = hi
    THEN LET s == Limb(a, lo) * k + Limb(b, lo) * j + carry
         IN  <<s % Radix, s \div Radix>>
    ELSE LET mid == (lo + hi) \div 2
             low == BigLinearRange(a, k, b, j, lo, mid, carry)
             high == BigLinearRange(a, k, b, j, mid + 1, hi, low[Len(low)])
         IN  SubSeq(low, 1, Len(low) - 1) \o high

BigLinear(a, k, b, j, carry) ==
    Trim(BigLinearRange(a, k, b, j, 1, Max(Max(Len(a), Len(b)), 1), carry))

BigAdd(a, b) == BigLinear(a, 1, b, 1, 0)
\* a - b for a >= b
BigSub(a, b) == BigLinear(a, 1, b, -1, 0)
\* a * k + carry for a limb k and a carry below Radix
BigMulSmall(a, k, carry) == BigLinear(a, k, <<>>, 0, carry)

\* -1, 0, 1 as a is below, equal to, above b
BigCmp(a, b) ==
    LET differ == {i \in 1..Len(a) : Limb(b, i) # a[i]}
        top == CHOOSE i \in differ : \A j \in differ : j <= i
    IN  IF Len(a) # Len(b) THEN (IF Len(a) < Len(b) THEN -1 ELSE 1)
        ELSE IF differ = {} THEN 0
        ELSE IF a[top] < b[top] THEN -1 ELSE 1

\* a * 2^s and the whole part of a / 2^s
BigShl(a, s) ==
    LET limbs == s \div LimbBits
        bits == s % LimbBits
    IN  Trim([i \in 1..(Len(a) + limbs + 1) |->
                 (Limb(a, i - limbs) % 2^(LimbBits - bits)) * 2^bits
                 + Limb(a, i - limbs - 1) \div 2^(LimbBits - bits)])

BigShr(a, s) ==
    LET limbs == s \div LimbBits
        bits == s % LimbBits
    IN  Trim([i \in 1..Max(Len(a) - limbs, 0) |->
                 Limb(a, i + limbs) \div 2^bits
                 + (Limb(a, i + limbs + 1) % 2^bits) * 2^(LimbBits - bits)])

\* a * (limbs lo..hi of b)
RECURSIVE BigMulRange(_, _, _, _)
BigMulRange(a, b, lo, hi) ==
    IF lo = hi THEN BigMulSmall(a, b[lo], 0)
    ELSE LET mid == (lo + hi) \div 2
         IN  BigAdd(BigMulRange(a, b, lo, mid),
                    [i \in 1..(mid + 1 - lo) |-> 0] \o BigMulRange(a, b, mid + 1, hi))

BigMul(a, b) == IF a = <<>> \/ b = <<>> THEN <<>> ELSE BigMulRange(a, b, 1, Len(b))

\* the number of bits of a limb, and the number of 0 bits below its lowest 1
RECURSIVE LimbWidth(_)
LimbWidth(n) == IF n = 0 THEN 0 ELSE 1 + LimbWidth(n \div 2)

RECURSIVE LimbTrailingZeros(_)
LimbTrailingZeros(n) == IF n % 2 = 1 THEN 0 ELSE 1 + LimbTrailingZeros(n \div 2)

\* the number of bits of a, and for a # 0 the number of 0 bits below its
\* lowest 1
BigBits(a) == IF a = <<>> THEN 0 ELSE LimbBits * (Len(a) - 1) + LimbWidth(a[Len(a)])

BigTrailingZeros(a) ==
    LET low == CHOOSE i \in 1..Len(a) : a[i] # 0 /\ \A j \in 1..(i - 1) : a[j] = 0
    IN  LimbBits * (low - 1) + LimbTrailingZeros(a[low])

\* bit i of a, the least significant being bit 0
BigBit(a, i) == (Limb(a, i \div LimbBits + 1) \div 2^(i % LimbBits)) % 2

\* whether one of the s low bits of a is 1
BigLowBits(a, s) ==
    \/ \E j \in 1..Min(Len(a), s \div LimbBits) : a[j] # 0
    \/ Limb(a, s \div LimbBits + 1) % 2^(s % LimbBits) # 0

\* the largest limb x with d * x <= r, found bit by bit from x = acc
RECURSIVE BigQuotientLimb(_, _, _, _)
BigQuotientLimb(r, d, bit, acc) ==
    IF bit < 0 THEN acc
    ELSE IF BigCmp(BigMulSmall(d, acc + 2^bit, 0), r) <= 0
         THEN BigQuotientLimb(r, d, bit - 1, acc + 2^bit)
    ELSE BigQuotientLimb(r, d, bit - 1, acc)

\* long division of n by d: limbs hi..lo of the quotient, the most
\* significant first, then the remainder left by limb lo; r is the remainder
\* left by the limbs above hi
RECURSIVE BigDivModRange(_, _, _, _, _)
BigDivModRange(n, d, lo, hi, r) ==
    IF lo = hi
    THEN LET r1 == Trim(<<n[lo]>> \o r)
             x == BigQuotientLimb(r1, d, LimbBits - 1, 0)
         IN  <<x, BigSub(r1, BigMulSmall(d, x, 0))>>
    ELSE LET mid == (lo + hi) \div 2
             high == BigDivModRange(n, d, mid + 1, hi, r)
         IN  SubSeq(high, 1, Len(high) - 1)
             \o BigDivModRange(n, d, lo, mid, high[Len(high)])

\* [q, r] with n = q * d + r and r < d, for d # 0
BigDivMod(n, d) ==
    LET limbs == Len(n) - Len(d) + 1
        qr == BigDivModRange(n, d, 1, limbs, SubSeq(n, limbs + 1, Len(n)))
    IN  IF limbs < 1 THEN [q |-> <<>>, r |-> n]
        ELSE [q |-> Trim([i \in 1..limbs |-> qr[limbs + 1 - i]]), r |-> qr[Len(qr)]]

\* 10^k
RECURSIVE BigPow10(_)
BigPow10(k) ==
    IF k <= 4 THEN <<10^k>>
    ELSE BigMul(BigPow10(k - k \div 2), BigPow10(k \div 2))

\* the value of a string of decimal digits
RECURSIVE BigOfDigits(_)
BigOfDigits(digits) ==
    IF digits = <<>> THEN <<>>
    ELSE IF Len(digits) = 1 THEN Trim(<<DigitValue[digits[1]]>>)
    ELSE LET h == Len(digits) \div 2
             high == BigOfDigits(SubSeq(digits, 1, h))
             low == BigOfDigits(SubSeq(digits, h + 1, Len(digits)))
         IN  BigAdd(BigMul(BigPow10(Len(digits) - h), high), low)

\* the decimal digits of a natural number
RECURSIVE NatChars(_)
NatChars(i) ==
    IF i < 10 THEN <<DigitChar[i + 1]>>
    ELSE NatChars(i \div 10) \o <<DigitChar[(i % 10) + 1]>>

\* the k decimal digits of a < 10^k
RECURSIVE BigChars(_, _)
BigChars(a, k) ==
    IF k <= 4
    THEN LET low == IF a = <<>> THEN <<>> ELSE NatChars(a[1])
         IN  [i \in 1..(k - Len(low)) |-> "0"] \o low
    ELSE LET qr == BigDivMod(a, BigPow10(k \div 2))
         IN  BigChars(qr.q, k - k \div 2) \o BigChars(qr.r, k \div 2)

Number(class, sign, m, e) ==
    [tag |-> "number", class |-> class, sign |-> sign, m |-> m, e |-> e]

Zero(sign) == Number("finite", sign, <<>>, 0)
Infinity(sign) == Number("inf", sign, <<>>, 0)
\* the NaN an invalid operation makes; x86-64 sets its sign bit, and every
\* operation on a NaN gives it back
NaN == Number("nan", 1, <<>>, 0)

IsZero(x) == x.class = "finite" /\ x.m = <<>>

\* m * 2^e for m of at most Precision bits
Finite(sign, m, e) ==
    IF m = <<>> THEN Zero(sign)
    ELSE LET z == BigTrailingZeros(m)
         IN  Number("finite", sign, BigShr(m, z), e + z)

\* (a + f) / 2^s for s > 0, with 0 < f < 1 when sticky and f = 0 otherwise,
\* rounded to a whole number: the nearest one, the even one of two nearest
BigShrRound(a, s, sticky) ==
    LET kept == BigShr(a, s)
        half == BigBit(a, s - 1) = 1
        rest == sticky \/ BigLowBits(a, s - 1)
        odd == BigBit(a, s) = 1
    IN  IF half /\ (rest \/ odd) THEN BigAdd(kept, <<1>>) ELSE kept

\* (m + f) * 2^e rounded to a multiple of 2^quantum
RoundAt(sign, m, e, sticky, quantum) ==
    IF quantum <= e THEN Finite(sign, m, e)
    ELSE Finite(sign, BigShrRound(m, quantum - e, sticky), quantum)

\* whether |x| < 2^k for a finite x
Below(x, k) == x.m = <<>> \/ x.e + BigBits(x.m) <= k

\* the double nearest (m + f) * 2^e; sticky only with m of more than
\* Precision + 1 bits.  [value, range]: range is set when the result is out
\* of the range of double, too large or tiny and not exact (ERANGE)
Round(sign, m, e, sticky) ==
    LET normal == e + BigBits(m) - Precision
        quantum == Max(normal, MinExponent)
        x == RoundAt(sign, m, e, sticky, quantum)
        inexact == sticky \/ (quantum > e /\ BigLowBits(m, quantum - e))
        tiny == Below(RoundAt(sign, m, e, sticky, normal), MinExponent + Precision - 1)
    IN  IF m = <<>> THEN [value |-> Zero(sign), range |-> FALSE]
        ELSE IF ~Below(x, MaxExponent) THEN [value |-> Infinity(sign), range |-> TRUE]
        ELSE [value |-> x, range |-> tiny /\ inexact]

\* the double nearest n / d * 2^e, for n > 0 and d > 0
Quotient(sign, n, d, e) ==
    IF d = <<1>> THEN Round(sign, n, e, FALSE)
    ELSE LET shift == Precision + 2 + BigBits(d) - BigBits(n)
             qr == BigDivMod(IF shift > 0 THEN BigShl(n, shift) ELSE n,
                             IF shift < 0 THEN BigShl(d, -shift) ELSE d)
         IN  Round(sign, qr.q, e - shift, qr.r # <<>>)


holds_number(v) == v.tag = "number"
holds_string(v) == v.tag = "string"

\* the longest run of digits of text after position i: where it ends
DigitPrefix(text, i) ==
    CHOOSE j \in i..Len(text) :
        /\ \A k \in (i + 1)..j : text[k] \in Digit
        /\ j = Len(text) \/ text[j + 1] \notin Digit

\* what std::stod throws: both are std::logic_error, what() is "stod"
invalid_argument == [tag |-> "invalid_argument", what |-> <<"stod">>]
out_of_range == [tag |-> "out_of_range", what |-> <<"stod">>]

\* the double that strtod rounded to, or std::out_of_range on ERANGE
InRange(r) == IF r.range THEN out_of_range ELSE r.value

\* std::stod on a lexeme that starts with digits [ '.' digits ], the form
\* Lexer::number makes: the nearest double, std::invalid_argument when there
\* is no digit, std::out_of_range when strtod reports ERANGE
stod(lexeme) ==
    LET k == DigitPrefix(lexeme, 0)
        f == IF k < Len(lexeme) /\ lexeme[k + 1] = "."
             THEN DigitPrefix(lexeme, k + 1) ELSE k
        fraction == SubSeq(lexeme, k + 2, f)
        digits == SubSeq(lexeme, 1, k) \o fraction
        n == BigOfDigits(digits)
    IN  IF digits = <<>> THEN invalid_argument
        ELSE IF n = <<>> THEN Zero(0)
        ELSE InRange(Quotient(0, n, BigPow10(Len(fraction)), 0))

\* the number of "0" at the head of digits, at most k of them
RECURSIVE LeadingZeros(_, _)
LeadingZeros(digits, k) ==
    IF k = 0 \/ digits[1] # "0" THEN 0
    ELSE 1 + LeadingZeros(Tail(digits), k - 1)

\* the decimal digits of a, seven at least: 10^k > 2^n for k > n * log 2
BigDecimal(a) == BigChars(a, Max((BigBits(a) * 30103) \div 100000 + 1, 7))

\* digits, a number of millionths, as a number with six digits after the
\* point and no "0" before the units
Fixed(digits) ==
    LET first == LeadingZeros(digits, Len(digits) - 7) + 1
    IN  SubSeq(digits, first, Len(digits) - 6) \o <<".">>
        \o SubSeq(digits, Len(digits) - 5, Len(digits))

\* std::to_string(double): "%f", the exact value rounded to six digits after
\* the point, to nearest with ties to even
to_string(v) ==
    LET sign == IF v.sign = 1 THEN <<"-">> ELSE <<>>
        million == BigMulSmall(BigMulSmall(v.m, 1000, 0), 1000, 0)
    IN  CASE v.class = "nan" -> sign \o <<"n", "a", "n">>
          [] v.class = "inf" -> sign \o <<"i", "n", "f">>
          [] v.class = "finite" ->
                sign \o Fixed(BigDecimal(IF v.e >= 0 THEN BigShl(million, v.e)
                                         ELSE BigShrRound(million, -v.e, FALSE)))

\* result.find_last_not_of(c): 1-based position, 0 for npos
RECURSIVE find_last_not_of(_, _)
find_last_not_of(str, c) ==
    IF str = <<>> THEN 0
    ELSE IF str[Len(str)] # c THEN Len(str)
    ELSE find_last_not_of(SubSeq(str, 1, Len(str) - 1), c)

\* valueToString: "Remove trailing zeros"
RemoveTrailingZeros(result) ==
    IF \E i \in 1..Len(result) : result[i] = "."
    THEN LET cut == SubSeq(result, 1, find_last_not_of(result, "0")) IN
         IF cut[Len(cut)] = "." THEN SubSeq(cut, 1, Len(cut) - 1) ELSE cut
    ELSE result

Function_toString(f) == <<"<", "f", "n", " ">> \o f.declaration.name \o <<">">>

Class_toString(c) == <<"<", "c", "l", "a", "s", "s", " ">> \o c.name \o <<">">>

Instance_toString(i) ==
    <<"<", "i", "n", "s", "t", "a", "n", "c", "e", " ", "o", "f", " ">>
    \o Class_toString(i.klass) \o <<">">>

valueToString(value) ==
    CASE value.tag = "nil" -> <<"n", "i", "l">>
      [] value.tag = "bool" ->
            IF value.b THEN <<"t", "r", "u", "e">> ELSE <<"f", "a", "l", "s", "e">>
      [] value.tag = "number" -> RemoveTrailingZeros(to_string(value))
      [] value.tag = "string" -> value.str
      [] value.tag = "function" -> Function_toString(value)
      [] value.tag = "class" -> Class_toString(value)
      [] value.tag = "instance" -> Instance_toString(value)

\* isTruthy with the number 0 and the empty string falsy as well
isTruthy_zero(value) ==
    IF value.tag = "nil" THEN FALSE
    ELSE IF value.tag = "bool" THEN value.b
    ELSE IF value.tag = "number" THEN ~IsZero(value)
    ELSE IF value.tag = "string" THEN value.str # <<>>
    ELSE TRUE

isTruthy(value) ==
    IF value.tag = "nil" THEN FALSE
    ELSE IF value.tag = "bool" THEN value.b
    ELSE TRUE

(***************************************************************************)
(* Environments.  shared_ptr<Environment> is an index into the sequence    *)
(* `envs` of all environments made so far; NullEnv is the null pointer.    *)
(* WildEnv and StrayEnv are pointers that were never initialised to        *)
(* anything: WildEnv points at no memory the process may read, StrayEnv at *)
(* readable bytes that make no table.  An operation through NullEnv or     *)
(* WildEnv is a memory fault of the process.  Through StrayEnv a lookup    *)
(* finds no entry and no enclosing environment, so get and assign throw,   *)
(* and define, which has to insert into the table that is not there,       *)
(* faults.  Each operation returns [r, ...] with r one of "ok", "throw"    *)
(* (the std::runtime_error "Undefined variable") and "fault".              *)
(***************************************************************************)
NullEnv == 0
WildEnv == -1
StrayEnv == -2

Environment(enclosing) == [values |-> <<>>, enclosing |-> enclosing]

Environment_define(envs, e, name, value) ==
    IF e < 1 THEN [r |-> "fault", envs |-> envs]
    ELSE [r |-> "ok", envs |-> [envs EXCEPT ![e].values = (name :> value) @@ @]]

RECURSIVE Environment_get(_, _, _)
Environment_get(envs, e, name) ==
    IF e = StrayEnv THEN [r |-> "throw", value |-> Nil]
    ELSE IF e < 1 THEN [r |-> "fault", value |-> Nil]
    ELSE IF name \in DOMAIN envs[e].values
         THEN [r |-> "ok", value |-> envs[e].values[name]]
    ELSE IF envs[e].enclosing # NullEnv
         THEN Environment_get(envs, envs[e].enclosing, name)
    ELSE [r |-> "throw", value |-> Nil]

RECURSIVE Environment_assign(_, _, _, _)
Environment_assign(envs, e, name, value) ==
    IF e = StrayEnv THEN [r |-> "throw", envs |-> envs]
    ELSE IF e < 1 THEN [r |-> "fault", envs |-> envs]
    ELSE IF name \in DOMAIN envs[e].values
         THEN [r |-> "ok", envs |-> [envs EXCEPT ![e].values[name] = value]]
    ELSE IF envs[e].enclosing # NullEnv
         THEN Environment_assign(envs, envs[e].enclosing, name, value)
    ELSE [r |-> "throw", envs |-> envs]

(***************************************************************************)
(* Callables                                                               *)
(***************************************************************************)
Function(declaration, closure) ==
    [tag |-> "function", declaration |-> declaration, closure |-> closure]

Function_arity(f) == Len(f.declaration.params)

Class(name, methods) == [tag |-> "class", name |-> name, methods |-> methods]

Instance(klass) == [tag |-> "instance", klass |-> klass]

NoMethod == [tag |-> "nullptr"]

InitMethod == <<"i", "n", "i", "t">>

Class_findMethod(c, name) ==
    IF name \in DOMAIN c.methods THEN c.methods[name] ELSE NoMethod

Class_arity(c) ==
    LET initMethod == Class_findMethod(c, InitMethod)
    IN  IF initMethod # NoMethod THEN Function_arity(initMethod) ELSE 0

(***************************************************************************)
(* InterpreterVisitor.  The visitor is the record                          *)
(*   [envs, environment, block, uses, globals, lastValue, out, status,     *)
(*    message, fuel]                                                       *)
(* `out` is what was written to std::cout, one entry per line.  status is  *)
(* "ok"; "thrown" while a std::runtime_error with `message` is in flight;  *)
(* "logic_error" while a std::logic_error is; "fault" once the process has *)
(* died of a memory fault; "fuel" when the evaluation was cut off by the   *)
(* bound MaxFuel on calls and iterations.  `block` and `uses` are the      *)
(* control block that the never initialised pointer came with and its      *)
(* reference count, see InterpreterVisitor below.                          *)
(***************************************************************************)
MaxFuel == 6

NoMessage == <<>>

Raise(v, message) == [v EXCEPT !.status = "thrown", !.message = message]

\* whether an exception is in flight
Thrown(v) == v.status \in {"thrown", "logic_error"}

Segfault(v) == [v EXCEPT !.status = "fault"]

\* the environments a Value points to: the closures of its Function objects
Closures(value) ==
    CASE value.tag = "function" -> {value.closure}
      [] value.tag = "class" ->
            {value.methods[n].closure : n \in DOMAIN value.methods}
      [] value.tag = "instance" ->
            {value.klass.methods[n].closure : n \in DOMAIN value.klass.methods}
      [] OTHER -> {}

\* the environments that environment x holds a shared_ptr to: `enclosing`
\* and the closures of its values
Environment_holds(envs, x) ==
    {envs[x].enclosing}
    \cup UNION {Closures(envs[x].values[n]) : n \in DOMAIN envs[x].values}

\* shared_ptr frees an Environment when the last pointer to it goes, so
\* one that points to itself through a Function it binds is never freed:
\* of `among`, the environments that something still points to, `roots`
\* being pointed to from outside
RECURSIVE Alive(_, _, _)
Alive(envs, roots, among) ==
    LET kept == {x \in among :
                    x \in roots \/ \E y \in among : x \in Environment_holds(envs, y)}
    IN  IF kept = among THEN among ELSE Alive(envs, roots, kept)

\* the environments made around the pointer the constructor left in
\* `environment`, each holding a copy of it in `enclosing`, that have not
\* been freed; `pinned` are those a local variable of the evaluator holds
Held(v, pinned) ==
    {x \in Alive(v.envs, Closures(v.lastValue) \cup pinned, DOMAIN v.envs) :
        x # v.globals /\ v.envs[x].enclosing < 1}

\* use_count() of the control block that pointer came with: `uses` for
\* `environment` itself (or, inside a block, for `previous`), and one for
\* each environment around it
use_count(v, pinned) == v.uses + Cardinality(Held(v, pinned))

\* n pointers to that block are let go one after the other while it counts
\* `count`: one of them is the last one it counts, and the block is disposed
\* of through a table of functions that is not there
Released(count, n) == n > 0 /\ count >= 1 /\ count - n < 1

\* `environment` is the pointer the constructor left there, with a block
Indeterminate(v) == v.environment < 1 /\ v.block = "counted"

\* the outermost block the evaluation is in: its environment
RECURSIVE Outermost(_, _)
Outermost(envs, e) ==
    IF envs[e].enclosing < 1 THEN e ELSE Outermost(envs, envs[e].enclosing)

\* w is v with another lastValue: the environments that only the closures
\* of the old one kept alive are freed
Dropped(v, w, pinned) ==
    IF Released(use_count(v, pinned),
                Cardinality(Held(v, pinned)) - Cardinality(Held(w, pinned)))
    THEN Segfault(w)
    ELSE w

\* lastValue = value
InterpreterVisitor_lastValue(v, value) ==
    IF v.block = "counted" /\ Closures(v.lastValue) # {}
    THEN Dropped(v, [v EXCEPT !.lastValue = value],
                 IF v.environment < 1 THEN {}
                 ELSE {Outermost(v.envs, v.environment)})
    ELSE [v EXCEPT !.lastValue = value]

\* lastValue = std::stod(...): d is the double, or what std::stod threw, a
\* std::logic_error
Converted(v, d) ==
    IF holds_number(d) THEN InterpreterVisitor_lastValue(v, d)
    ELSE [v EXCEPT !.status = "logic_error", !.message = d.what]

\* std::make_shared<Environment>(enclosing): the new one is Len(envs)
make_shared_Environment(v, enclosing) ==
    [v EXCEPT !.envs = Append(@, Environment(enclosing))]

\* left + right, left - right, left * right, left / right on double
Plus(l, r) ==
    IF l.class = "nan" THEN l
    ELSE IF r.class = "nan" THEN r
    ELSE IF l.class = "inf"
         THEN IF r.class = "inf" /\ r.sign # l.sign THEN NaN ELSE l
    ELSE IF r.class = "inf" THEN r
    ELSE IF IsZero(l) /\ IsZero(r) THEN Zero(IF l.sign = 1 /\ r.sign = 1 THEN 1 ELSE 0)
    ELSE IF IsZero(l) THEN r
    ELSE IF IsZero(r) THEN l
    ELSE LET e == Min(l.e, r.e)
             a == BigShl(l.m, l.e - e)
             b == BigShl(r.m, r.e - e)
             c == BigCmp(a, b)
         IN  IF l.sign = r.sign THEN Round(l.sign, BigAdd(a, b), e, FALSE).value
             ELSE IF c = 0 THEN Zero(0)
             ELSE IF c > 0 THEN Round(l.sign, BigSub(a, b), e, FALSE).value
             ELSE Round(r.sign, BigSub(b, a), e, FALSE).value

Minus(l, r) == Plus(l, IF r.class = "nan" THEN r ELSE [r EXCEPT !.sign = 1 - @])

Times(l, r) ==
    LET sign == (l.sign + r.sign) % 2 IN
    IF l.class = "nan" THEN l
    ELSE IF r.class = "nan" THEN r
    ELSE IF l.class = "inf" \/ r.class = "inf"
         THEN IF IsZero(l) \/ IsZero(r) THEN NaN ELSE Infinity(sign)
    ELSE IF IsZero(l) \/ IsZero(r) THEN Zero(sign)
    ELSE Round(sign, BigMul(l.m, r.m), l.e + r.e, FALSE).value

Divide(l, r) ==
    LET sign == (l.sign + r.sign) % 2 IN
    IF l.class = "nan" THEN l
    ELSE IF r.class = "nan" THEN r
    ELSE IF l.class = "inf" THEN IF r.class = "inf" THEN NaN ELSE Infinity(sign)
    ELSE IF r.class = "inf" THEN Zero(sign)
    ELSE IF IsZero(r) THEN IF IsZero(l) THEN NaN ELSE Infinity(sign)
    ELSE IF IsZero(l) THEN Zero(sign)
    ELSE Quotient(sign, l.m, r.m, l.e - r.e).value

RECURSIVE accept(_, _), InterpreterVisitor_statements(_, _, _),
          InterpreterVisitor_arguments(_, _, _, _),
          InterpreterVisitor_whileLoop(_, _), Function_call(_, _, _)

\* the end of executeBlock, also by way of its catch clause: `environment`
\* takes `previous` back, and `previous` is destroyed
Restored(previous, env, v1) ==
    IF ~(v1.status = "ok" \/ Thrown(v1)) THEN v1
    ELSE IF previous < 1 /\ v1.block = "counted"
            /\ Released(use_count(v1, {env}) + 1, 1)
    THEN Segfault(v1)
    ELSE [v1 EXCEPT !.environment = previous]

\* executeBlock without the catch clause that restores the environment
InterpreterVisitor_executeBlock_leaking(statements, env, v) ==
    IF Indeterminate(v) /\ Released(use_count(v, {env}) + 1, 1) THEN Segfault(v)
    ELSE LET v1 == InterpreterVisitor_statements(
                       statements, 1, [v EXCEPT !.environment = env])
         IN  IF Thrown(v1) THEN v1 ELSE Restored(v.environment, env, v1)

\* previous = environment; environment = env, which lets go of what
\* `environment` held, before any statement of the block runs; the
\* statements; the end
InterpreterVisitor_executeBlock(statements, env, v) ==
    IF Indeterminate(v) /\ Released(use_count(v, {env}) + 1, 1) THEN Segfault(v)
    ELSE Restored(v.environment, env,
                  InterpreterVisitor_statements(
                      statements, 1, [v EXCEPT !.environment = env]))

\* for (auto& stmt : statements) stmt->accept(this);
InterpreterVisitor_statements(statements, i, v) ==
    IF i > Len(statements) \/ v.status # "ok" THEN v
    ELSE InterpreterVisitor_statements(statements, i + 1, accept(statements[i], v))

\* visit(BinaryExpr*) with the other operators comparing their operands
InterpreterVisitor_visitBinaryExpr_comparing(node, v) ==
    LET v1 == accept(node.left, v) IN
    IF v1.status # "ok" THEN v1 ELSE
    LET left == v1.lastValue
        v2 == accept(node.right, v1)
    IN
    IF v2.status # "ok" THEN v2 ELSE
    LET right == v2.lastValue
        notNumber == <<"Operand must be a number">>
    IN  CASE node.op.type = "PLUS" ->
                IF holds_number(left) /\ holds_number(right)
                THEN InterpreterVisitor_lastValue(v2, Plus(left, right))
                ELSE IF holds_string(left) /\ holds_string(right)
                THEN InterpreterVisitor_lastValue(v2, String(left.str \o right.str))
                ELSE Raise(v2, <<"Operands must be two numbers or two strings">>)
          [] node.op.type = "MINUS" ->
                IF holds_number(left) /\ holds_number(right)
                THEN InterpreterVisitor_lastValue(v2, Minus(left, right))
                ELSE Raise(v2, notNumber)
          [] node.op.type = "STAR" ->
                IF holds_number(left) /\ holds_number(right)
                THEN InterpreterVisitor_lastValue(v2, Times(left, right))
                ELSE Raise(v2, notNumber)
          [] node.op.type = "SLASH" ->
                IF ~holds_number(right) THEN Raise(v2, notNumber)
                ELSE IF IsZero(right) THEN Raise(v2, <<"Division by zero">>)
                ELSE IF ~holds_number(left) THEN Raise(v2, notNumber)
                ELSE InterpreterVisitor_lastValue(v2, Divide(left, right))
          [] OTHER -> InterpreterVisitor_lastValue(v2, Bool(left = right))

InterpreterVisitor_visitBinaryExpr(node, v) ==
    LET v1 == accept(node.left, v) IN
    IF v1.status # "ok" THEN v1 ELSE
    LET left == v1.lastValue
        v2 == accept(node.right, v1)
    IN
    IF v2.status # "ok" THEN v2 ELSE
    LET right == v2.lastValue
        notNumber == <<"Operand must be a number">>
    IN  CASE node.op.type = "PLUS" ->
                IF holds_number(left) /\ holds_number(right)
                THEN InterpreterVisitor_lastValue(v2, Plus(left, right))
                ELSE IF holds_string(left) /\ holds_string(right)
                THEN InterpreterVisitor_lastValue(v2, String(left.str \o right.str))
                ELSE Raise(v2, <<"Operands must be two numbers or two strings">>)
          [] node.op.type = "MINUS" ->
                IF holds_number(left) /\ holds_number(right)
                THEN InterpreterVisitor_lastValue(v2, Minus(left, right))
                ELSE Raise(v2, notNumber)
          [] node.op.type = "STAR" ->
                IF holds_number(left) /\ holds_number(right)
                THEN InterpreterVisitor_lastValue(v2, Times(left, right))
                ELSE Raise(v2, notNumber)
          [] node.op.type = "SLASH" ->
                IF ~holds_number(right) THEN Raise(v2, notNumber)
                ELSE IF IsZero(right) THEN Raise(v2, <<"Division by zero">>)
                ELSE IF ~holds_number(left) THEN Raise(v2, notNumber)
                ELSE InterpreterVisitor_lastValue(v2, Divide(left, right))
          [] OTHER -> InterpreterVisitor_lastValue(v2, Nil)

InterpreterVisitor_visitLiteralExpr(node, v) ==
    CASE node.value.type = "NUMBER" ->
            Converted(v, stod(node.value.lexeme))
      [] node.value.type = "STRING" ->
            InterpreterVisitor_lastValue(v, String(node.value.lexeme))
      [] OTHER -> InterpreterVisitor_lastValue(v, Nil)

InterpreterVisitor_visitVariableExpr(node, v) ==
    LET g == Environment_get(v.envs, v.environment, node.name.lexeme) IN
    CASE g.r = "ok" -> InterpreterVisitor_lastValue(v, g.value)
      [] g.r = "throw" -> Raise(v, <<"Undefined variable", node.name.lexeme>>)
      [] g.r = "fault" -> Segfault(v)

InterpreterVisitor_visitAssignExpr(node, v) ==
    LET v1 == accept(node.value, v) IN
    IF v1.status # "ok" THEN v1 ELSE
    LET a == Environment_assign(v1.envs, v1.environment, node.name.lexeme,
                                v1.lastValue)
    IN  CASE a.r = "ok" -> [v1 EXCEPT !.envs = a.envs]
          [] a.r = "throw" -> Raise(v1, <<"Undefined variable", node.name.lexeme>>)
          [] a.r = "fault" -> Segfault(v1)

\* the loop over node->arguments run from the last argument to the first
RECURSIVE InterpreterVisitor_arguments_reversed(_, _, _, _)
InterpreterVisitor_arguments_reversed(exprs, i, v, arguments) ==
    IF i > Len(exprs) \/ v.status # "ok" THEN [v |-> v, arguments |-> arguments]
    ELSE LET v1 == accept(exprs[Len(exprs) + 1 - i], v)
         IN  InterpreterVisitor_arguments_reversed(exprs, i + 1, v1,
                                                   <<v1.lastValue>> \o arguments)

\* the loop over node->arguments: [v, arguments]
InterpreterVisitor_arguments(exprs, i, v, arguments) ==
    IF i > Len(exprs) \/ v.status # "ok" THEN [v |-> v, arguments |-> arguments]
    ELSE LET v1 == accept(exprs[i], v)
         IN  InterpreterVisitor_arguments(exprs, i + 1, v1,
                                          Append(arguments, v1.lastValue))

\* environment->define(params[i], arguments[i]) for each parameter
RECURSIVE Function_bind(_, _, _, _, _)
Function_bind(envs, env, params, arguments, i) ==
    IF i > Len(params) THEN envs
    ELSE Function_bind(
             Environment_define(envs, env, params[i], arguments[i]).envs,
             env, params, arguments, i + 1)

\* Function::call with the caller's current environment, not the closure,
\* around the environment of the call
Function_call_dynamic(f, v, arguments) ==
    IF v.fuel = 0 THEN [v |-> [v EXCEPT !.status = "fuel"], value |-> Nil] ELSE
    LET v1 == make_shared_Environment([v EXCEPT !.fuel = @ - 1], v.environment)
        environment == Len(v1.envs)
        v2 == [v1 EXCEPT !.envs = Function_bind(@, environment,
                                                f.declaration.params, arguments, 1)]
        v3 == InterpreterVisitor_executeBlock(f.declaration.body, environment, v2)
    IN  IF v3.status = "thrown"
        THEN [v |-> [v3 EXCEPT !.status = "ok", !.message = NoMessage],
              value |-> Nil]
        ELSE [v |-> v3, value |-> Nil]

\* Function::call: [v, value].  A std::runtime_error leaving the body is
\* caught here and dropped.
Function_call(f, v, arguments) ==
    IF v.fuel = 0 THEN [v |-> [v EXCEPT !.status = "fuel"], value |-> Nil] ELSE
    LET v1 == make_shared_Environment([v EXCEPT !.fuel = @ - 1], f.closure)
        environment == Len(v1.envs)
        v2 == [v1 EXCEPT !.envs = Function_bind(@, environment,
                                                f.declaration.params, arguments, 1)]
        v3 == InterpreterVisitor_executeBlock(f.declaration.body, environment, v2)
    IN  IF v3.status = "thrown"
        THEN [v |-> [v3 EXCEPT !.status = "ok", !.message = NoMessage],
              value |-> Nil]
        ELSE [v |-> v3, value |-> Nil]

\* Class::call: [v, value]
Class_call(c, v, arguments) ==
    LET instance == Instance(c)
        initializer == Class_findMethod(c, InitMethod)
    IN  IF initializer # NoMethod
        THEN [v |-> Function_call(initializer, v, arguments).v, value |-> instance]
        ELSE [v |-> v, value |-> instance]

\* visit(CallExpr*) raising only when arguments are missing
InterpreterVisitor_visitCallExpr_lenient(node, v) ==
    LET v1 == accept(node.callee, v) IN
    IF v1.status # "ok" THEN v1 ELSE
    LET callee == v1.lastValue
        a == InterpreterVisitor_arguments(node.arguments, 1, v1, <<>>)
        arity == IF callee.tag = "function" THEN Function_arity(callee)
                 ELSE Class_arity(callee)
        c == IF callee.tag = "function"
             THEN Function_call(callee, a.v, a.arguments)
             ELSE Class_call(callee, a.v, a.arguments)
    IN
    IF a.v.status # "ok" THEN a.v
    ELSE IF callee.tag \in {"function", "class"}
         THEN IF Len(a.arguments) < arity
              THEN Raise(a.v, <<"Expected arguments", arity, Len(a.arguments)>>)
              ELSE IF c.v.status = "ok" THEN InterpreterVisitor_lastValue(c.v, c.value)
              ELSE c.v
    ELSE Raise(a.v, <<"Can only call functions and classes">>)

InterpreterVisitor_visitCallExpr(node, v) ==
    LET v1 == accept(node.callee, v) IN
    IF v1.status # "ok" THEN v1 ELSE
    LET callee == v1.lastValue
        a == InterpreterVisitor_arguments(node.arguments, 1, v1, <<>>)
        arity == IF callee.tag = "function" THEN Function_arity(callee)
                 ELSE Class_arity(callee)
        c == IF callee.tag = "function"
             THEN Function_call(callee, a.v, a.arguments)
             ELSE Class_call(callee, a.v, a.arguments)
    IN
    IF a.v.status # "ok" THEN a.v
    ELSE IF callee.tag \in {"function", "class"}
         THEN IF Len(a.arguments) # arity
              THEN Raise(a.v, <<"Expected arguments", arity, Len(a.arguments)>>)
              ELSE IF c.v.status = "ok" THEN InterpreterVisitor_lastValue(c.v, c.value)
              ELSE c.v
    ELSE Raise(a.v, <<"Can only call functions and classes">>)

InterpreterVisitor_visitExpressionStmt(node, v) == accept(node.expression, v)

InterpreterVisitor_visitPrintStmt(node, v) ==
    LET v1 == accept(node.expression, v) IN
    IF v1.status # "ok" THEN v1
    ELSE [v1 EXCEPT !.out = Append(@, valueToString(v1.lastValue))]

InterpreterVisitor_visitVarStmt(node, v) ==
    LET v1 == IF node.initializer # nullptr THEN accept(node.initializer, v) ELSE v
        value == IF node.initializer # nullptr THEN v1.lastValue ELSE Nil
        d == Environment_define(v1.envs, v1.environment, node.name.lexeme, value)
    IN  IF v1.status # "ok" THEN v1
        ELSE IF d.r = "fault" THEN Segfault(v1)
        ELSE [v1 EXCEPT !.envs = d.envs]

\* the end of visit(BlockStmt*), also when an exception passes through it:
\* the shared_ptr made for executeBlock is destroyed, and with it the
\* Environment `env`, unless a closure still points to it
InterpreterVisitor_blockEnd(indeterminate, env, v2) ==
    IF indeterminate /\ (v2.status = "ok" \/ Thrown(v2))
       /\ env \notin Held(v2, {}) /\ Released(use_count(v2, {env}), 1)
    THEN Segfault(v2)
    ELSE v2

\* std::make_shared<Environment>(environment) copies `environment` into the
\* parameter of Environment(), that into `enclosing`, and lets go of the
\* parameter; executeBlock; the end
InterpreterVisitor_visitBlockStmt(node, v) ==
    IF Indeterminate(v) /\ Released(use_count(v, {}) + 2, 1) THEN Segfault(v)
    ELSE InterpreterVisitor_blockEnd(
             Indeterminate(v), Len(v.envs) + 1,
             InterpreterVisitor_executeBlock(
                 node.statements, Len(v.envs) + 1,
                 make_shared_Environment(v, v.environment)))

InterpreterVisitor_visitIfStmt(node, v) ==
    LET v1 == accept(node.condition, v) IN
    IF v1.status # "ok" THEN v1
    ELSE IF isTruthy(v1.lastValue) THEN accept(node.thenBranch, v1)
    ELSE IF node.elseBranch # nullptr THEN accept(node.elseBranch, v1)
    ELSE v1

InterpreterVisitor_whileLoop(node, v) ==
    LET v1 == accept(node.condition, v) IN
    IF v1.status # "ok" THEN v1
    ELSE IF ~isTruthy(v1.lastValue) THEN v1
    ELSE IF v1.fuel = 0 THEN [v1 EXCEPT !.status = "fuel"]
    ELSE LET v2 == accept(node.body, [v1 EXCEPT !.fuel = @ - 1]) IN
         IF v2.status # "ok" THEN v2 ELSE InterpreterVisitor_whileLoop(node, v2)

InterpreterVisitor_visitWhileStmt(node, v) == InterpreterVisitor_whileLoop(node, v)

\* a Function made with a copy of the current environment as its closure
InterpreterVisitor_visitFunctionNode_copying(node, v) ==
    IF v.environment < 1 THEN Segfault(v)
    ELSE LET envs1 == Append(v.envs, v.envs[v.environment])
             function == Function(node, Len(envs1))
         IN  [v EXCEPT !.envs = Environment_define(envs1, v.environment, node.name,
                                                   function).envs]

InterpreterVisitor_visitFunctionNode(node, v) ==
    LET function == Function(node, v.environment)
        d == Environment_define(v.envs, v.environment, node.name, function)
    IN  IF d.r = "fault" THEN Segfault(v) ELSE [v EXCEPT !.envs = d.envs]

\* methods[method->name] = Function(method, environment), in order
RECURSIVE InterpreterVisitor_methods(_, _, _, _)
InterpreterVisitor_methods(nodes, i, environment, methods) ==
    IF i > Len(nodes) THEN methods
    ELSE InterpreterVisitor_methods(
             nodes, i + 1, environment,
             (nodes[i].name :> Function(nodes[i], environment)) @@ methods)

\* visit(ClassNode*) without the forward definition of the name
InterpreterVisitor_visitClassNode_assigning(node, v) ==
    LET methods == InterpreterVisitor_methods(node.methods, 1, v.environment, <<>>)
        klass == Class(node.name, methods)
        a == Environment_assign(v.envs, v.environment, node.name, klass)
    IN  CASE a.r = "ok" -> [v EXCEPT !.envs = a.envs]
          [] a.r = "throw" -> Raise(v, <<"Undefined variable", node.name>>)
          [] a.r = "fault" -> Segfault(v)

InterpreterVisitor_visitClassNode(node, v) ==
    LET d == Environment_define(v.envs, v.environment, node.name, Nil)
        methods == InterpreterVisitor_methods(node.methods, 1, v.environment, <<>>)
        klass == Class(node.name, methods)
        a == Environment_assign(d.envs, v.environment, node.name, klass)
    IN  IF d.r = "fault" THEN Segfault(v)
        ELSE CASE a.r = "ok" -> [v EXCEPT !.envs = a.envs]
               [] a.r = "throw" -> Raise(v, <<"Undefined variable", node.name>>)
               [] a.r = "fault" -> Segfault(v)

\* node->accept(this): dispatch on the class of the node
accept(node, v) ==
    CASE node.kind = "BinaryExpr" -> InterpreterVisitor_visitBinaryExpr(node, v)
      [] node.kind = "LiteralExpr" -> InterpreterVisitor_visitLiteralExpr(node, v)
      [] node.kind = "VariableExpr" -> InterpreterVisitor_visitVariableExpr(node, v)
      [] node.kind = "AssignExpr" -> InterpreterVisitor_visitAssignExpr(node, v)
      [] node.kind = "CallExpr" -> InterpreterVisitor_visitCallExpr(node, v)
      [] node.kind = "ExpressionStmt" -> InterpreterVisitor_visitExpressionStmt(node, v)
      [] node.kind = "PrintStmt" -> InterpreterVisitor_visitPrintStmt(node, v)
      [] node.kind = "VarStmt" -> InterpreterVisitor_visitVarStmt(node, v)
      [] node.kind = "BlockStmt" -> InterpreterVisitor_visitBlockStmt(node, v)
      [] node.kind = "IfStmt" -> InterpreterVisitor_visitIfStmt(node, v)
      [] node.kind = "WhileStmt" -> InterpreterVisitor_visitWhileStmt(node, v)
      [] node.kind = "FunctionNode" -> InterpreterVisitor_visitFunctionNode(node, v)
      [] node.kind = "ClassNode" -> InterpreterVisitor_visitClassNode(node, v)

\* how many Environments an evaluation of node makes, at most, around the
\* pointer the constructor left in `environment`: one each time a Block is
\* executed while `environment` is still that pointer, the Block being a
\* declaration of the program or, outside every Block, a branch of an if or
\* the body of a while.  `times` is how often node is evaluated at most, a
\* loop body as often as the evaluation is followed.
RECURSIVE TopLevelBlocks(_, _), TopLevelBlocksOf(_, _, _)
TopLevelBlocks(node, times) ==
    CASE node.kind = "ProgramNode" -> TopLevelBlocksOf(node.declarations, 1, times)
      [] node.kind = "BlockStmt" -> times
      [] node.kind = "IfStmt" ->
            TopLevelBlocks(node.thenBranch, times)
            + (IF node.elseBranch # nullptr
               THEN TopLevelBlocks(node.elseBranch, times) ELSE 0)
      [] node.kind = "WhileStmt" -> TopLevelBlocks(node.body, MaxFuel)
      [] OTHER -> 0

TopLevelBlocksOf(nodes, i, times) ==
    IF i > Len(nodes) THEN 0
    ELSE TopLevelBlocks(nodes[i], times) + TopLevelBlocksOf(nodes, i + 1, times)

\* InterpreterVisitor(): `environment` is declared before `globals`, so it is
\* copy-constructed from `globals` before make_shared has initialised it.
\* The copy reads indeterminate bytes, a pointer and the address of a control
\* block, and counts one more reference in that block.  `outcome` is what
\* comes of it: "fault" when the block is at no address the process may
\* write, and otherwise <<pointer, block, uses>>: the pointer NullEnv, WildEnv
\* or StrayEnv, and the block
\*   "none"     no block, uses 0;
\*   "counted"  a block that counts `uses` references after the copy.
\* The count goes up with every copy of `environment` and down with every
\* copy destroyed; the copy whose release finds a count of 1 has the block
\* disposed of, which is a memory fault.  The count the block holds is any
\* int.  While the program `node` is evaluated, n Environments at most
\* being made around the pointer, a release finds a count from `uses` to
\* `uses` + n + 1, so it finds 1 only when `uses` is one of -n..1: every
\* count below -n makes the run that -(n + 1) makes, and every count above
\* 1 the run that 2 makes (no count comes near the ends of int).
UseCounts(node) == (-(TopLevelBlocks(node, 1) + 1))..2

ConstructorOutcomes(node) ==
    {"fault"}
    \cup ({NullEnv, WildEnv, StrayEnv} \X {"none"} \X {0})
    \cup ({NullEnv, WildEnv, StrayEnv} \X {"counted"} \X UseCounts(node))

InterpreterVisitor(outcome) ==
    [envs |-> <<Environment(NullEnv)>>,
     globals |-> 1,
     environment |-> IF outcome = "fault" THEN NullEnv ELSE outcome[1],
     block |-> IF outcome = "fault" THEN "none" ELSE outcome[2],
     uses |-> IF outcome = "fault" THEN 0 ELSE outcome[3],
     lastValue |-> Nil,
     out |-> <<>>,
     status |-> IF outcome = "fault" THEN "fault" ELSE "ok",
     message |-> NoMessage,
     fuel |-> MaxFuel]

\* ~InterpreterVisitor(): the members are destroyed in reverse order,
\* lastValue with the environments only it kept alive, then `environment`
InterpreterVisitor_destroy(v) ==
    IF v.block = "counted"
       /\ Released(use_count(v, {}),
                   1 + Cardinality(Held(v, {}))
                     - Cardinality(Held([v EXCEPT !.lastValue = Nil], {})))
    THEN Segfault(v)
    ELSE v

(***************************************************************************)
(* Symbol tables and the semantic visitor.  SymbolTable* is an index into  *)
(* `tables`; NoTable is the null parent.  The visitor is                   *)
(*   [tables, currentScope, reported]                                      *)
(***************************************************************************)
NoTable == 0

Symbol(name, type, isConst) == [name |-> name, type |-> type, isConst |-> isConst]

NoSymbol == [name |-> <<>>, type |-> "nullptr", isConst |-> FALSE]

SymbolTable(parent) == [symbols |-> <<>>, parent |-> parent, deleted |-> FALSE]

\* define(symbol) storing the symbol also when the name is present
SymbolTable_define_overwriting(table, symbol) ==
    [ok |-> symbol.name \notin DOMAIN table.symbols,
     table |-> [table EXCEPT !.symbols = (symbol.name :> symbol) @@ @]]

\* define(symbol): [ok, table]
SymbolTable_define(table, symbol) ==
    IF symbol.name \in DOMAIN table.symbols THEN [ok |-> FALSE, table |-> table]
    ELSE [ok |-> TRUE,
          table |-> [table EXCEPT !.symbols = (symbol.name :> symbol) @@ @]]

RECURSIVE SymbolTable_resolve(_, _, _)
SymbolTable_resolve(tables, t, name) ==
    IF name \in DOMAIN tables[t].symbols THEN tables[t].symbols[name]
    ELSE IF tables[t].parent # NoTable
         THEN SymbolTable_resolve(tables, tables[t].parent, name)
    ELSE NoSymbol

SymbolTable_getParent(tables, t) == tables[t].parent

SemanticVisitor ==
    [tables |-> <<SymbolTable(NoTable)>>, currentScope |-> 1, reported |-> <<>>]

reportError(sv, message) == [sv EXCEPT !.reported = Append(@, message)]

\* currentScope = new SymbolTable(enclosingScope)
SemanticVisitor_enter(sv) ==
    [sv EXCEPT !.tables = Append(@, SymbolTable(sv.currentScope)),
               !.currentScope = Len(sv.tables) + 1]

\* leaving a construct without going back to the enclosing scope
SemanticVisitor_leave_staying(sv) == sv

\* previous = currentScope; currentScope = currentScope->getParent(); delete previous
SemanticVisitor_leave(sv) ==
    [sv EXCEPT !.currentScope = SymbolTable_getParent(sv.tables, sv.currentScope),
               !.tables[sv.currentScope].deleted = TRUE]

\* ~SemanticVisitor(): while (currentScope) { parent = getParent(); delete
\* currentScope; currentScope = parent; }
RECURSIVE SemanticVisitor_destroy(_)
SemanticVisitor_destroy(sv) ==
    IF sv.currentScope = NoTable THEN sv
    ELSE SemanticVisitor_destroy(
             [sv EXCEPT !.currentScope = SymbolTable_getParent(sv.tables,
                                                               sv.currentScope),
                        !.tables[sv.currentScope].deleted = TRUE])

\* a definition reported when the name resolves anywhere in the chain
SemanticVisitor_define_chain(sv, symbol, message) ==
    LET d == SymbolTable_define(sv.tables[sv.currentScope], symbol)
        sv1 == [sv EXCEPT !.tables[sv.currentScope] = d.table]
    IN  IF SymbolTable_resolve(sv.tables, sv.currentScope, symbol.name) = NoSymbol
        THEN sv1 ELSE reportError(sv1, message)

\* if (!currentScope->define(symbol)) reportError(message)
SemanticVisitor_define(sv, symbol, message) ==
    LET d == SymbolTable_define(sv.tables[sv.currentScope], symbol)
        sv1 == [sv EXCEPT !.tables[sv.currentScope] = d.table]
    IN  IF d.ok THEN sv1 ELSE reportError(sv1, message)

RECURSIVE analyze(_, _), SemanticVisitor_each(_, _, _),
          SemanticVisitor_params(_, _, _)

\* for (auto& x : nodes) x->accept(this);
SemanticVisitor_each(nodes, i, sv) ==
    IF i > Len(nodes) THEN sv
    ELSE SemanticVisitor_each(nodes, i + 1, analyze(nodes[i], sv))

SemanticVisitor_params(params, i, sv) ==
    IF i > Len(params) THEN sv
    ELSE SemanticVisitor_params(
             params, i + 1,
             SemanticVisitor_define(sv, Symbol(params[i], "", FALSE),
                                    <<"Parameter already defined", params[i]>>))

SemanticVisitor_visitVariableExpr(node, sv) ==
    IF SymbolTable_resolve(sv.tables, sv.currentScope, node.name.lexeme) = NoSymbol
    THEN reportError(sv, <<"Undefined variable", node.name.lexeme>>)
    ELSE sv

\* the assignment walk without the isConst test
SemanticVisitor_visitAssignExpr_unchecked(node, sv) ==
    LET sv1 == analyze(node.value, sv)
        symbol == SymbolTable_resolve(sv1.tables, sv1.currentScope, node.name.lexeme)
    IN  IF symbol = NoSymbol
        THEN reportError(sv1, <<"Undefined variable", node.name.lexeme>>)
        ELSE sv1

SemanticVisitor_visitAssignExpr(node, sv) ==
    LET sv1 == analyze(node.value, sv)
        symbol == SymbolTable_resolve(sv1.tables, sv1.currentScope, node.name.lexeme)
    IN  IF symbol = NoSymbol
        THEN reportError(sv1, <<"Undefined variable", node.name.lexeme>>)
        ELSE IF symbol.isConst
        THEN reportError(sv1, <<"Cannot assign to const variable", node.name.lexeme>>)
        ELSE sv1

SemanticVisitor_visitVarStmt(node, sv) ==
    LET sv1 == IF node.initializer # nullptr THEN analyze(node.initializer, sv)
               ELSE sv
    IN  SemanticVisitor_define(sv1, Symbol(node.name.lexeme, "", FALSE),
                               <<"Variable already defined", node.name.lexeme>>)

SemanticVisitor_visitBlockStmt(node, sv) ==
    SemanticVisitor_leave(
        SemanticVisitor_each(node.statements, 1, SemanticVisitor_enter(sv)))

SemanticVisitor_visitIfStmt(node, sv) ==
    LET sv1 == analyze(node.thenBranch, analyze(node.condition, sv))
    IN  IF node.elseBranch # nullptr THEN analyze(node.elseBranch, sv1) ELSE sv1

SemanticVisitor_visitFunctionNode(node, sv) ==
    LET sv1 == SemanticVisitor_define(sv, Symbol(node.name, "function", TRUE),
                                      <<"Function already defined", node.name>>)
        sv2 == SemanticVisitor_params(node.params, 1, SemanticVisitor_enter(sv1))
    IN  SemanticVisitor_leave(SemanticVisitor_each(node.body, 1, sv2))

SemanticVisitor_visitClassNode(node, sv) ==
    LET sv1 == SemanticVisitor_define(sv, Symbol(node.name, "class", TRUE),
                                      <<"Class already defined", node.name>>)
    IN  SemanticVisitor_leave(
            SemanticVisitor_each(node.methods, 1, SemanticVisitor_enter(sv1)))

\* node->accept(&visitor) for the semantic visitor
analyze(node, sv) ==
    CASE node.kind = "BinaryExpr" -> analyze(node.right, analyze(node.left, sv))
      [] node.kind = "LiteralExpr" -> sv
      [] node.kind = "VariableExpr" -> SemanticVisitor_visitVariableExpr(node, sv)
      [] node.kind = "AssignExpr" -> SemanticVisitor_visitAssignExpr(node, sv)
      [] node.kind = "CallExpr" ->
            SemanticVisitor_each(node.arguments, 1, analyze(node.callee, sv))
      [] node.kind = "ExpressionStmt" -> analyze(node.expression, sv)
      [] node.kind = "PrintStmt" -> analyze(node.expression, sv)
      [] node.kind = "VarStmt" -> SemanticVisitor_visitVarStmt(node, sv)
      [] node.kind = "BlockStmt" -> SemanticVisitor_visitBlockStmt(node, sv)
      [] node.kind = "IfStmt" -> SemanticVisitor_visitIfStmt(node, sv)
      [] node.kind = "WhileStmt" -> analyze(node.body, analyze(node.condition, sv))
      [] node.kind = "FunctionNode" -> SemanticVisitor_visitFunctionNode(node, sv)
      [] node.kind = "ClassNode" -> SemanticVisitor_visitClassNode(node, sv)

(***************************************************************************)
(* CodeGenVisitor and CodeGenerator.  A visit is given the indentLevel it  *)
(* is called at and yields what it adds to the visitor:                    *)
(*   [code, reported, variables]                                           *)
(* the text written to the stringstream `code`, the messages given to      *)
(* ErrorHandling::reportError and the entries put into `variables`.  Every *)
(* visit leaves indentLevel as it found it.                                *)
(***************************************************************************)
\* code << text
Written(text) == [code |-> text, reported |-> <<>>, variables |-> <<>>]

\* one effect after another
Then(first, second) ==
    [code |-> first.code \o second.code,
     reported |-> first.reported \o second.reported,
     variables |-> second.variables @@ first.variables]

RECURSIVE InOrder(_, _)
InOrder(parts, i) ==
    IF i > Len(parts) THEN Written(<<>>) ELSE Then(parts[i], InOrder(parts, i + 1))

\* indent(): two spaces for each level
indent(indentLevel) == [i \in 1..(2 * indentLevel) |-> " "]

\* the parameters of a function, "auto " before each and ", " between them
RECURSIVE CodeGenVisitor_params(_, _)
CodeGenVisitor_params(params, i) ==
    IF i > Len(params) THEN <<>>
    ELSE (IF i > 1 THEN <<",", " ">> ELSE <<>>)
         \o <<"a", "u", "t", "o", " ">> \o params[i]
         \o CodeGenVisitor_params(params, i + 1)

\* the text of a binary operator, or the error reported for another token
CodeGenVisitor_operator(op) ==
    CASE op.type = "PLUS" -> Written(<<" ", "+", " ">>)
      [] op.type = "MINUS" -> Written(<<" ", "-", " ">>)
      [] op.type = "STAR" -> Written(<<" ", "*", " ">>)
      [] op.type = "SLASH" -> Written(<<" ", "/", " ">>)
      [] OTHER -> [code |-> <<>>,
                   reported |-> << <<"Unsupported binary operator">> >>,
                   variables |-> <<>>]

RECURSIVE CodeGenVisitor_visit(_, _)

\* for (auto& x : nodes) x->accept(this);
CodeGenVisitor_each(nodes, indentLevel) ==
    InOrder([i \in 1..Len(nodes) |-> CodeGenVisitor_visit(nodes[i], indentLevel)], 1)

\* the arguments of a call, ", " between them
CodeGenVisitor_arguments(nodes, indentLevel) ==
    InOrder([i \in 1..Len(nodes) |->
                Then(Written(IF i > 1 THEN <<",", " ">> ELSE <<>>),
                     CodeGenVisitor_visit(nodes[i], indentLevel))], 1)

\* for (auto& method : node->methods) { indent(); method->accept(this); }
CodeGenVisitor_methods(nodes, indentLevel) ==
    InOrder([i \in 1..Len(nodes) |->
                Then(Written(indent(indentLevel)),
                     CodeGenVisitor_visit(nodes[i], indentLevel))], 1)

\* node->accept(&visitor) for the code generator: visit of each class
CodeGenVisitor_visit(node, indentLevel) ==
    CASE node.kind = "ProgramNode" ->
            InOrder(<<Written(<<"/", "/", " ", "G", "e", "n", "e", "r", "a", "t", "e", "d", " ", "c", "o", "d", "e", NL>>
                              \o <<"#", "i", "n", "c", "l", "u", "d", "e", " ", "<", "i", "o", "s", "t", "r", "e", "a", "m", ">", NL>>
                              \o <<"#", "i", "n", "c", "l", "u", "d", "e", " ", "<", "s", "t", "r", "i", "n", "g", ">", NL>>
                              \o <<"#", "i", "n", "c", "l", "u", "d", "e", " ", "<", "m", "a", "p", ">", NL, NL>>
                              \o <<"i", "n", "t", " ", "m", "a", "i", "n", "(", ")", " ", "{", NL>>),
                      CodeGenVisitor_each(node.declarations, indentLevel + 1),
                      Written(indent(indentLevel + 1) \o <<"r", "e", "t", "u", "r", "n", " ", "0", ";", NL>>),
                      Written(<<"}", NL>>)>>, 1)
      [] node.kind = "BinaryExpr" ->
            InOrder(<<Written(<<"(">>),
                      CodeGenVisitor_visit(node.left, indentLevel),
                      CodeGenVisitor_operator(node.op),
                      CodeGenVisitor_visit(node.right, indentLevel),
                      Written(<<")">>)>>, 1)
      [] node.kind = "LiteralExpr" ->
            IF node.value.type = "STRING"
            THEN Written(<<QUOTE>> \o node.value.lexeme \o <<QUOTE>>)
            ELSE Written(node.value.lexeme)
      [] node.kind = "VariableExpr" -> Written(node.name.lexeme)
      [] node.kind = "AssignExpr" ->
            InOrder(<<Written(node.name.lexeme \o <<" ", "=", " ">>),
                      CodeGenVisitor_visit(node.value, indentLevel)>>, 1)
      [] node.kind = "CallExpr" ->
            InOrder(<<CodeGenVisitor_visit(node.callee, indentLevel),
                      Written(<<"(">>),
                      CodeGenVisitor_arguments(node.arguments, indentLevel),
                      Written(<<")">>)>>, 1)
      [] node.kind = "ExpressionStmt" ->
            InOrder(<<Written(indent(indentLevel)),
                      CodeGenVisitor_visit(node.expression, indentLevel),
                      Written(<<";", NL>>)>>, 1)
      [] node.kind = "PrintStmt" ->
            InOrder(<<Written(indent(indentLevel)),
                      Written(<<"s", "t", "d", ":", ":", "c", "o", "u", "t", " ", "<", "<", " ">>),
                      CodeGenVisitor_visit(node.expression, indentLevel),
                      Written(<<" ", "<", "<", " ", "s", "t", "d", ":", ":", "e", "n", "d", "l", ";", NL>>)>>, 1)
      [] node.kind = "VarStmt" ->
            InOrder(<<Written(indent(indentLevel)),
                      Written(<<"a", "u", "t", "o">> \o <<" ">> \o node.name.lexeme \o <<" ", "=", " ">>),
                      IF node.initializer # nullptr
                      THEN CodeGenVisitor_visit(node.initializer, indentLevel)
                      ELSE Written(<<"{", "}">>),
                      Written(<<";", NL>>),
                      [code |-> <<>>, reported |-> <<>>,
                       variables |-> node.name.lexeme :> <<"a", "u", "t", "o">>]>>, 1)
      [] node.kind = "BlockStmt" ->
            InOrder(<<Written(indent(indentLevel)),
                      Written(<<"{", NL>>),
                      CodeGenVisitor_each(node.statements, indentLevel + 1),
                      Written(indent(indentLevel)),
                      Written(<<"}", NL>>)>>, 1)
      [] node.kind = "IfStmt" ->
            InOrder(<<Written(indent(indentLevel)),
                      Written(<<"i", "f", " ", "(">>),
                      CodeGenVisitor_visit(node.condition, indentLevel),
                      Written(<<")", " ">>),
                      CodeGenVisitor_visit(node.thenBranch, indentLevel),
                      IF node.elseBranch # nullptr
                      THEN InOrder(<<Written(indent(indentLevel)),
                                     Written(<<"e", "l", "s", "e", " ">>),
                                     CodeGenVisitor_visit(node.elseBranch,
                                                          indentLevel)>>, 1)
                      ELSE Written(<<>>)>>, 1)
      [] node.kind = "WhileStmt" ->
            InOrder(<<Written(indent(indentLevel)),
                      Written(<<"w", "h", "i", "l", "e", " ", "(">>),
                      CodeGenVisitor_visit(node.condition, indentLevel),
                      Written(<<")", " ">>),
                      CodeGenVisitor_visit(node.body, indentLevel)>>, 1)
      [] node.kind = "FunctionNode" ->
            InOrder(<<Written(<<"a", "u", "t", "o", " ">> \o node.name \o <<"(">>),
                      Written(CodeGenVisitor_params(node.params, 1)),
                      Written(<<")", " ", "{", NL>>),
                      CodeGenVisitor_each(node.body, indentLevel + 1),
                      Written(<<"}", NL, NL>>)>>, 1)
      [] node.kind = "ClassNode" ->
            InOrder(<<Written(<<"c", "l", "a", "s", "s", " ">> \o node.name \o <<" ", "{", NL>>),
                      Written(<<"p", "u", "b", "l", "i", "c", ":", NL>>),
                      CodeGenVisitor_methods(node.methods, indentLevel + 1),
                      Written(<<"}", ";", NL, NL>>)>>, 1)

\* a text as the lines it makes on std::cout; what follows the last line
\* end, when there is anything, is a line of its own
RECURSIVE Lines(_)
Lines(text) ==
    IF text = <<>> THEN <<>>
    ELSE IF \A i \in DOMAIN text : text[i] # NL THEN <<text>>
    ELSE LET n == CHOOSE i \in DOMAIN text :
                      text[i] = NL /\ \A j \in 1..(i - 1) : text[j] # NL
         IN  <<SubSeq(text, 1, n - 1)>> \o Lines(SubSeq(text, n + 1, Len(text)))

\* std::cout << "Generated C++ Code:\n" << "===================\n"
\*           << visitor.getCode() << std::endl;
CodeGenerator_output(visitor) ==
    [out |-> Lines(<<"G", "e", "n", "e", "r", "a", "t", "e", "d", " ", "C", "+", "+", " ", "C", "o", "d", "e", ":", NL>>
                   \o <<"=", "=", "=", "=", "=", "=", "=", "=", "=", "=", "=", "=", "=", "=", "=", "=", "=", "=", "=", NL>>
                   \o visitor.code \o <<NL>>),
     reported |-> visitor.reported]

\* CodeGenerator::generate(ast): CodeGenVisitor visitor (indentLevel = 0);
\* ast->accept(&visitor);
CodeGenerator_generate(node) == CodeGenerator_output(CodeGenVisitor_visit(node, 0))

(***************************************************************************)
(* Inputs: source texts for main(), and trees for                          *)
(* SemanticAnalyzer::analyze and Interpreter::execute.                     *)
(***************************************************************************)
SP == <<" ">>
KwPrint == <<"p", "r", "i", "n", "t">>
KwLet == <<"l", "e", "t">>
KwFn == <<"f", "n">>
KwClass == <<"c", "l", "a", "s", "s">>

OpChar == ("PLUS" :> "+") @@ ("MINUS" :> "-") @@ ("STAR" :> "*") @@ ("SLASH" :> "/")
ArithOps == {"PLUS", "MINUS", "STAR", "SLASH"}

MaxLiteral == 12
MaxOperand == 3

Range(seq) == {seq[i] : i \in DOMAIN seq}

RECURSIVE Join(_, _)
Join(texts, separator) ==
    IF texts = <<>> THEN <<>>
    ELSE IF Len(texts) = 1 THEN texts[1]
    ELSE texts[1] \o separator \o Join(Tail(texts), separator)

\* tree builders: the nodes of a source text whose tokens are all on line 1
Tok(type, lexeme) == Token(type, lexeme, 1)
Num(n) == LiteralExpr(Tok("NUMBER", NatChars(n)))
Str(chars) == LiteralExpr(Tok("STRING", chars))
Var(name) == VariableExpr(Tok("IDENTIFIER", name))
Assign(name, value) == AssignExpr(Tok("IDENTIFIER", name), value)
Bin(left, op, right) == BinaryExpr(left, Tok(op, <<OpChar[op]>>), right)
Call(callee, arguments) == CallExpr(callee, Tok("RPAREN", <<")">>), arguments)
Let(name, initializer) == VarStmt(Tok("IDENTIFIER", name), initializer)

\* print n;
SrcPrintLiteral(n) == KwPrint \o SP \o NatChars(n) \o <<";">>

\* print a op1 b op2 c;
SrcArith(a, op1, b, op2, c) ==
    KwPrint \o SP \o NatChars(a) \o SP \o <<OpChar[op1]>> \o SP \o NatChars(b)
    \o SP \o <<OpChar[op2]>> \o SP \o NatChars(c) \o <<";">>

ArithInputs ==
    (1..MaxOperand) \X ArithOps \X (1..MaxOperand) \X ArithOps \X (1..MaxOperand)

\* fn NAME(p1, ..., pn) { body }, a body being a sequence of print n;
FnNames == {<<"f">>, <<"a", "d", "d">>}
FnParams == {<<>>, <<<<"a">>>>, <<<<"a">>, <<"b">>>>}
FnBodies == {<<>>, <<1>>, <<1, 2>>}

SrcBody(body) == Join([i \in DOMAIN body |-> SrcPrintLiteral(body[i])], SP)
TreeBody(body) == [i \in DOMAIN body |-> PrintStmt(Num(body[i]))]

SrcFn(name, params, body) ==
    KwFn \o SP \o name \o <<"(">> \o Join(params, <<",", " ">>) \o <<")">>
    \o SP \o <<"{">> \o SP \o SrcBody(body) \o SP \o <<"}">>

SrcInBlock(text) == <<"{">> \o SP \o text \o SP \o <<"}">>

FnInputs == FnNames \X FnParams \X FnBodies \X BOOLEAN

SrcFnInput(t) == IF t[4] THEN SrcInBlock(SrcFn(t[1], t[2], t[3]))
                 ELSE SrcFn(t[1], t[2], t[3])
TreeFnInput(t) ==
    IF t[4] THEN ProgramNode(<<BlockStmt(<<FunctionNode(t[1], t[2], TreeBody(t[3]))>>)>>)
    ELSE ProgramNode(<<FunctionNode(t[1], t[2], TreeBody(t[3]))>>)

\* fn add(a, b) { print a + b; } add(2, 3);
SrcAdd ==
    <<"f", "n", " ", "a", "d", "d", "(", "a", ",", " ", "b", ")", " ", "{", " ",
      "p", "r", "i", "n", "t", " ", "a", " ", "+", " ", "b", ";", " ", "}", " ",
      "a", "d", "d", "(", "2", ",", " ", "3", ")", ";">>
TreeAdd ==
    ProgramNode(<<
        FunctionNode(<<"a", "d", "d">>, <<<<"a">>, <<"b">>>>,
                     <<PrintStmt(Bin(Var(<<"a">>), "PLUS", Var(<<"b">>)))>>),
        ExpressionStmt(Call(Var(<<"a", "d", "d">>), <<Num(2), Num(3)>>))>>)

\* class NAME { fn init(p1, ..., pn) { body } } or class NAME {}
ClassNames == {<<"C">>, <<"D">>}
ClassInputs == ClassNames \X BOOLEAN \X FnParams \X BOOLEAN

SrcClass(name, hasInit, params) ==
    KwClass \o SP \o name \o SP \o <<"{">>
    \o (IF hasInit THEN SP \o SrcFn(InitMethod, params, <<>>) \o SP ELSE <<>>)
    \o <<"}">>
TreeClass(name, hasInit, params) ==
    ClassNode(name, IF hasInit THEN <<FunctionNode(InitMethod, params, <<>>)>>
                    ELSE <<>>)

SrcClassInput(t) == IF t[4] THEN SrcInBlock(SrcClass(t[1], t[2], t[3]))
                    ELSE SrcClass(t[1], t[2], t[3])
TreeClassInput(t) ==
    IF t[4] THEN ProgramNode(<<BlockStmt(<<TreeClass(t[1], t[2], t[3])>>)>>)
    ELSE ProgramNode(<<TreeClass(t[1], t[2], t[3])>>)

\* class C {} let c = C(); print c;
SrcInstance ==
    <<"c", "l", "a", "s", "s", " ", "C", " ", "{", "}", " ",
      "l", "e", "t", " ", "c", " ", "=", " ", "C", "(", ")", ";", " ",
      "p", "r", "i", "n", "t", " ", "c", ";">>
TreeInstance ==
    ProgramNode(<<ClassNode(<<"C">>, <<>>),
                  Let(<<"c">>, Call(Var(<<"C">>), <<>>)),
                  PrintStmt(Var(<<"c">>))>>)

\* well-formed statements around a malformed one: print n; BAD let y = m;
Malformed ==
    {<<"p", "r", "i", "n", "t", " ", ";">>,
     <<"l", "e", "t", " ", "=", " ", "1", ";">>,
     <<"p", "r", "i", "n", "t", " ", "(", "1", ";">>,
     <<"1", " ", "=", " ", "2", ";">>}
SrcLet(name, n) == KwLet \o SP \o name \o SP \o <<"=">> \o SP \o NatChars(n) \o <<";">>
RecoveryInputs == (0..MaxOperand) \X Malformed \X (0..MaxOperand) \X (0..1)

\* t[4] well-formed statements before the malformed one, one after it
SrcRecovery(t) ==
    (IF t[4] = 1 THEN SrcPrintLiteral(t[1]) \o SP ELSE <<>>)
    \o t[2] \o SP \o SrcLet(<<"y">>, t[3])

\* token soups: up to MaxSoup tokens in any order, alone or after the
\* opening of a class body, a parameter list, a function body or an
\* argument list (declaration() has consumed the first `class` or `fn`
\* when parseClass() or parseFunction() asks for it)
MaxSoup == 3
SoupPieces == {<<"{">>, <<"}">>, <<"(">>, <<")">>, <<",">>, <<";">>, KwFn, <<"x">>}
Soups == UNION {[1..k -> SoupPieces] : k \in 0..MaxSoup}
SoupPrefixes ==
    {<<>>,
     <<KwClass, KwClass, <<"x">>, <<"{">> >>,
     <<KwFn, KwFn, <<"x">>, <<"(">> >>,
     <<KwFn, KwFn, <<"x">>, <<"(">>, <<")">>, <<"{">> >>,
     <<<<"x">>, <<"(">> >>}
SoupInputs == SoupPrefixes \X Soups
SrcSoup(t) == Join(t[1] \o t[2], SP)

\* texts for the scanner alone: every string of up to MaxText characters
\* over blanks, line ends, the comment and string delimiters, a letter, a
\* digit, the decimal point, an operator that may take '=' and a character
\* that starts no token
MaxText == 5
TextChars == {" ", NL, "/", QUOTE, "a", "1", ".", "=", "@"}
Texts == UNION {[1..k -> TextChars] : k \in 0..MaxText}

\* parse errors raised while the current token is a `;` or a keyword that
\* starts a declaration:   let let y = 0;     print ; 1 ; let y = 0;
SyncSources ==
    {Join(<<KwLet, KwLet, <<"y">>, <<"=">>, <<"0">>, <<";">>>>, SP),
     Join(<<KwPrint, <<";">>, <<"1">>, <<";">>, KwLet, <<"y">>, <<"=">>, <<"0">>, <<";">>>>, SP)}

Sources ==
    {SrcPrintLiteral(n) : n \in 0..MaxLiteral}
    \cup {SrcArith(t[1], t[2], t[3], t[4], t[5]) : t \in ArithInputs}
    \cup {SrcFnInput(t) : t \in FnInputs} \cup {SrcAdd}
    \cup {SrcClassInput(t) : t \in ClassInputs} \cup {SrcInstance}
    \cup {SrcRecovery(t) : t \in RecoveryInputs}
    \cup {SrcSoup(t) : t \in SoupInputs}
    \cup SyncSources

\* statements at the top level of the program, or inside one block
Wrap(wrapped, statements) ==
    IF wrapped THEN ProgramNode(<<BlockStmt(statements)>>)
    ELSE ProgramNode(statements)

Stmt(expr) == ExpressionStmt(expr)
Fn(name, params, body) == FunctionNode(name, params, body)

\* a runtime error inside a function body or an init body:
\*   { fn h() {}  fn f() { print 1; BAD; print 2; }  f();  print 3; }  print 4;
\*   { fn h() {}  class K { fn init() { print 1; BAD; print 2; } }  K();  print 3; }  print 4;
ErrorKinds == {"undefined", "mismatch", "zero", "arity", "notcallable"}
ErrorInputs == ErrorKinds \X {"function", "init"}

BadExpr(kind) ==
    CASE kind = "undefined" -> Var(<<"u">>)
      [] kind = "mismatch" -> Bin(Num(1), "MINUS", Str(<<"s">>))
      [] kind = "zero" -> Bin(Num(1), "SLASH", Num(0))
      [] kind = "arity" -> Call(Var(<<"h">>), <<Num(1)>>)
      [] kind = "notcallable" -> Call(Num(1), <<>>)

ErrorBody(kind) == <<PrintStmt(Num(1)), Stmt(BadExpr(kind)), PrintStmt(Num(2))>>

TreeError(t) ==
    ProgramNode(<<
        BlockStmt(
            <<Fn(<<"h">>, <<>>, <<>>)>>
            \o (IF t[2] = "function"
                THEN <<Fn(<<"f">>, <<>>, ErrorBody(t[1])),
                       Stmt(Call(Var(<<"f">>), <<>>))>>
                ELSE <<ClassNode(<<"K">>, <<Fn(InitMethod, <<>>, ErrorBody(t[1]))>>),
                       Stmt(Call(Var(<<"K">>), <<>>))>>)
            \o <<PrintStmt(Num(3))>>),
        PrintStmt(Num(4))>>)

\* a function reading a captured variable that is assigned after the
\* declaration, by the declaring code or by a second function:
\*   let x = n;  [ { ]  fn f() { print x; }  fn g() { x = m; }
\*   f();  x = m; or g();  f();  [ } ]
Values == 1..MaxOperand
ClosureInputs == Values \X Values \X {"declaring", "function"} \X (0..1) \X BOOLEAN

ClosureUse(t) ==
    <<Fn(<<"f">>, <<>>, <<PrintStmt(Var(<<"x">>))>>),
      Fn(<<"g">>, <<>>, <<Stmt(Assign(<<"x">>, Num(t[2])))>>),
      Stmt(Call(Var(<<"f">>), <<>>)),
      IF t[3] = "declaring" THEN Stmt(Assign(<<"x">>, Num(t[2])))
      ELSE Stmt(Call(Var(<<"g">>), <<>>)),
      Stmt(Call(Var(<<"f">>), <<>>))>>

TreeClosure(t) ==
    Wrap(t[5], <<Let(<<"x">>, Num(t[1]))>>
               \o (IF t[4] = 1 THEN <<BlockStmt(ClosureUse(t))>> ELSE ClosureUse(t)))

\* let x = n; { let x = m; print x; } print x;
ShadowInputs == Values \X Values \X BOOLEAN

TreeShadow(t) ==
    Wrap(t[3], <<Let(<<"x">>, Num(t[1])),
                 BlockStmt(<<Let(<<"x">>, Num(t[2])), PrintStmt(Var(<<"x">>))>>),
                 PrintStmt(Var(<<"x">>))>>)

\* x = 2; print x; in the innermost of nested scopes, binds[i] telling
\* whether scope i (1 the outermost) has let x = 1; each binding scope
\* prints x when the scope nested in it has ended
MaxDepth == 3
Binds == UNION {[1..k -> BOOLEAN] : k \in 1..MaxDepth}
AssignInputs == {t \in Binds \X BOOLEAN : t[2] \/ Len(t[1]) = 1}

RECURSIVE AssignScope(_, _)
AssignScope(binds, i) ==
    (IF binds[i] THEN <<Let(<<"x">>, Num(1))>> ELSE <<>>)
    \o (IF i = Len(binds)
        THEN <<Stmt(Assign(<<"x">>, Num(2))), PrintStmt(Var(<<"x">>))>>
        ELSE <<BlockStmt(AssignScope(binds, i + 1))>>
             \o (IF binds[i] THEN <<PrintStmt(Var(<<"x">>))>> ELSE <<>>))

TreeAssign(t) == Wrap(t[2], AssignScope(t[1], 1))

\* the order of evaluation, seen through functions that print:
\*   { fn a() { print 1; }  fn b() { print 2; }  fn c(p, q) { print 3; }  E; }
\* with E a binary expression or a call built from a(), b(), c and the
\* unbound names u and w
OrderKinds == {"both", "left-error", "right-error", "two-errors"}
CallKinds == {"args", "not-callable", "arity", "callee-error", "callee-first"}
OrderInputs == (OrderKinds \X ArithOps) \cup (CallKinds \X {"RPAREN"})

CallA == Call(Var(<<"a">>), <<>>)
CallB == Call(Var(<<"b">>), <<>>)

OrderExpr(t) ==
    CASE t[1] = "both" -> Bin(CallA, t[2], CallB)
      [] t[1] = "left-error" -> Bin(Var(<<"u">>), t[2], CallB)
      [] t[1] = "right-error" -> Bin(CallA, t[2], Var(<<"u">>))
      [] t[1] = "two-errors" -> Bin(Var(<<"u">>), t[2], Var(<<"w">>))
      [] t[1] = "args" -> Call(Var(<<"c">>), <<CallA, CallB>>)
      [] t[1] = "not-callable" -> Call(Num(5), <<CallA, CallB>>)
      [] t[1] = "arity" -> Call(Var(<<"c">>), <<CallA, CallB, CallA>>)
      [] t[1] = "callee-error" -> Call(Var(<<"u">>), <<CallA>>)
      [] t[1] = "callee-first" -> Call(CallA, <<CallB>>)

TreeOrder(t) ==
    ProgramNode(<<BlockStmt(
        <<Fn(<<"a">>, <<>>, <<PrintStmt(Num(1))>>),
          Fn(<<"b">>, <<>>, <<PrintStmt(Num(2))>>),
          Fn(<<"c">>, <<<<"p">>, <<"q">>>>, <<PrintStmt(Num(3))>>),
          Stmt(OrderExpr(t))>>)>>)

\* an assignment x = 1; whose target resolves to a symbol introduced by
\* `first` ("let", "fn", "class", "param"), or by `second` when there is one:
\* nested, second is declared in a block of its own and shadows the first;
\* otherwise it is declared in the scope of the first, where define() fails
\* and the first symbol stays
DeclKinds == {"let", "fn", "class"}
ConstInputs == (DeclKinds \cup {"param"}) \X (DeclKinds \cup {"none"}) \X BOOLEAN

Decl(kind, name) ==
    CASE kind = "let" -> <<Let(name, Num(0))>>
      [] kind = "fn" -> <<Fn(name, <<>>, <<>>)>>
      [] kind = "class" -> <<ClassNode(name, <<>>)>>
      [] kind = "none" -> <<>>

ConstUse(t) ==
    IF t[3] THEN <<BlockStmt(Decl(t[2], <<"x">>) \o <<Stmt(Assign(<<"x">>, Num(1)))>>)>>
    ELSE Decl(t[2], <<"x">>) \o <<Stmt(Assign(<<"x">>, Num(1)))>>

TreeConst(t) ==
    IF t[1] = "param"
    THEN ProgramNode(<<Fn(<<"g">>, <<<<"x">>>>, ConstUse(t))>>)
    ELSE ProgramNode(Decl(t[1], <<"x">>) \o ConstUse(t))

\* nested blocks, each defining its own x and printing it once the block
\* nested in it has ended; the innermost one ends normally or with the
\* unbound name u.  The nest is a statement of the outer block, the body
\* of a function or the body of an init, and print x follows it:
\*   { let x = 1;  NEST  print x; }
\*   { let x = 1;  fn f() { NEST }  f();  print x; }
\*   { let x = 1;  class K { fn init() { NEST } }  K();  print x; }
RestoreInputs == (1..MaxDepth) \X {"normal", "error"} \X {"block", "function", "init"}

RECURSIVE Nest(_, _, _)
Nest(k, depth, ending) ==
    <<Let(<<"x">>, Num(k + 1))>>
    \o (IF k < depth THEN <<BlockStmt(Nest(k + 1, depth, ending))>>
        ELSE IF ending = "error" THEN <<Stmt(Var(<<"u">>))>> ELSE <<>>)
    \o <<PrintStmt(Var(<<"x">>))>>

TreeRestore(t) ==
    LET nest == Nest(1, t[1], t[2]) IN
    ProgramNode(<<BlockStmt(
        <<Let(<<"x">>, Num(1))>>
        \o (CASE t[3] = "block" -> <<BlockStmt(nest)>>
              [] t[3] = "function" ->
                    <<Fn(<<"f">>, <<>>, nest), Stmt(Call(Var(<<"f">>), <<>>))>>
              [] t[3] = "init" ->
                    <<ClassNode(<<"K">>, <<Fn(InitMethod, <<>>, nest)>>),
                      Stmt(Call(Var(<<"K">>), <<>>))>>)
        \o <<PrintStmt(Var(<<"x">>))>>)>>)

\* a call with `given` arguments of a function of `arity` parameters, or
\* of a value that is no function and no class:
\*   { fn f(p1, ..., pn) { print 9; }  class K {}  CALLEE(1, ..., m); }
\* CALLEE being f, a number, a string or the instance K()
MaxArgs == 3
ParamNames == << <<"p">>, <<"q">>, <<"r">> >>
CalleeKinds == {"function", "number", "string", "instance"}
ArityInputs == CalleeKinds \X (0..2) \X (0..MaxArgs)

Callee(kind) ==
    CASE kind = "function" -> Var(<<"f">>)
      [] kind = "number" -> Num(5)
      [] kind = "string" -> Str(<<"s">>)
      [] kind = "instance" -> Call(Var(<<"K">>), <<>>)

TreeArity(t) ==
    ProgramNode(<<BlockStmt(
        <<Fn(<<"f">>, SubSeq(ParamNames, 1, t[2]), <<PrintStmt(Num(9))>>),
          ClassNode(<<"K">>, <<>>),
          Stmt(Call(Callee(t[1]), [i \in 1..t[3] |-> Num(i)]))>>)>>)

\* two definitions of x, the second in the scope of the first or in a
\* scope nested in it; a parameter is defined in the scope of its
\* function's body:
\*   FIRST SECOND         FIRST { SECOND }
\*   fn g(x) { SECOND }   fn g(x) { { SECOND } }   fn g(x, x) {}
\* a SECOND that is a parameter being fn h(x) {}
DupKinds == DeclKinds \cup {"param"}
DupInputs == {t \in DupKinds \X DupKinds \X BOOLEAN :
                  t[2] = "param" /\ t[3] => t[1] = "param"}

TreeDup(t) ==
    LET second == IF t[2] = "param" THEN <<Fn(<<"h">>, <<<<"x">>>>, <<>>)>>
                  ELSE Decl(t[2], <<"x">>)
        placed == IF t[3] THEN second ELSE <<BlockStmt(second)>>
    IN  IF t[1] = "param"
        THEN IF t[2] = "param" /\ t[3]
             THEN ProgramNode(<<Fn(<<"g">>, <<<<"x">>, <<"x">>>>, <<>>)>>)
             ELSE ProgramNode(<<Fn(<<"g">>, <<<<"x">>>>, placed)>>)
        ELSE ProgramNode(Decl(t[1], <<"x">>) \o placed)

\* a read or an assignment of x placed before the definition of x, after
\* it inside the construct that holds the definition, or after the
\* construct; x is a let of a block, a let of a function body, a parameter,
\* or a method of a class body (used from the body of another method):
\*   { B let x = 0; I }  A            fn g() { B let x = 0; I }  A
\*   B fn g(x) { I }  A               class K { fn b() { B } fn x() {} fn m() { I } }  A
ScopeKinds == {"block", "body", "param", "class"}
UseKinds == {"read", "assign"}
Places == {"before", "inside", "after"}
ScopeInputs == ScopeKinds \X UseKinds \X Places

TreeScope(t) ==
    LET use == IF t[2] = "read" THEN <<Stmt(Var(<<"x">>))>>
               ELSE <<Stmt(Assign(<<"x">>, Num(1)))>>
        at(place) == IF t[3] = place THEN use ELSE <<>>
        let == <<Let(<<"x">>, Num(0))>>
    IN  CASE t[1] = "block" ->
                ProgramNode(<<BlockStmt(at("before") \o let \o at("inside"))>>
                            \o at("after"))
          [] t[1] = "body" ->
                ProgramNode(<<Fn(<<"g">>, <<>>, at("before") \o let \o at("inside"))>>
                            \o at("after"))
          [] t[1] = "param" ->
                ProgramNode(at("before")
                            \o <<Fn(<<"g">>, <<<<"x">>>>, at("inside"))>>
                            \o at("after"))
          [] t[1] = "class" ->
                ProgramNode(<<ClassNode(<<"K">>,
                                        <<Fn(<<"b">>, <<>>, at("before")),
                                          Fn(<<"x">>, <<>>, <<>>),
                                          Fn(<<"m">>, <<>>, at("inside"))>>)>>
                            \o at("after"))

\* print L op R; for the operators - * / and operands that are a number,
\* the number 0 or a string
OperandKinds == {"number", "zero", "string"}
TypeInputs == OperandKinds \X {"MINUS", "STAR", "SLASH"} \X OperandKinds

Operand(kind) ==
    CASE kind = "number" -> Num(6)
      [] kind = "zero" -> Num(0)
      [] kind = "string" -> Str(<<"s">>)

TreeType(t) == ProgramNode(<<PrintStmt(Bin(Operand(t[1]), t[2], Operand(t[3])))>>)

\* a call f(n) made from the block that declares f, from a block nested in
\* it or from the body of another function h; the caller binds c, the
\* declaring block g, the body of f y.  One of p, g, c, y is printed in the
\* body of f or by the caller after the call:
\*   { let g = 8;  fn f(p) { let y = 7; BODY }  let c = 9; f(n); AFTER }
\*   { let g = 8;  fn f(p) { let y = 7; BODY }  { let c = 9; f(n); AFTER } }
\*   { let g = 8;  fn f(p) { let y = 7; BODY }  fn h() { let c = 9; f(n); AFTER }  h(); }
CallerKinds == {"declaring", "nested", "function"}
ProbeNames == {"p", "g", "c", "y"}
CallInputs == CallerKinds \X ProbeNames \X {"body", "after"} \X Values

TreeCall(t) ==
    LET probe(place) == IF t[3] = place THEN <<PrintStmt(Var(<<t[2]>>))>> ELSE <<>>
        caller == <<Let(<<"c">>, Num(9)), Stmt(Call(Var(<<"f">>), <<Num(t[4])>>))>>
                  \o probe("after")
    IN  ProgramNode(<<BlockStmt(
            <<Let(<<"g">>, Num(8)),
              Fn(<<"f">>, <<<<"p">>>>, <<Let(<<"y">>, Num(7))>> \o probe("body"))>>
            \o (CASE t[1] = "declaring" -> caller
                  [] t[1] = "nested" -> <<BlockStmt(caller)>>
                  [] t[1] = "function" ->
                        <<Fn(<<"h">>, <<>>, caller),
                          Stmt(Call(Var(<<"h">>), <<>>))>>))>>)

\* a class K with n methods declared in a block, or in a block nested in
\* it, the outer block binding K before with a let, a fn or nothing:
\*   { OUTER  class K { fn a() {} fn b() {} }  print K; }
\*   { OUTER  { class K { fn a() {} fn b() {} }  print K; }  print K; }
MethodNames == << <<"a">>, <<"b">> >>
OuterKinds == {"none", "let", "fn"}
KlassInputs == OuterKinds \X (0..Len(MethodNames)) \X BOOLEAN

KlassNode(n) == ClassNode(<<"K">>, [i \in 1..n |-> Fn(MethodNames[i], <<>>, <<>>)])

TreeKlass(t) ==
    LET declared == <<KlassNode(t[2]), PrintStmt(Var(<<"K">>))>> IN
    ProgramNode(<<BlockStmt(
        Decl(t[1], <<"K">>)
        \o (IF t[3] THEN <<BlockStmt(declared), PrintStmt(Var(<<"K">>))>>
            ELSE declared))>>)

\* a loop on v1 whose body hands v1 the value of v2, v2 that of v3, and so
\* on, the first k variables holding a truthy value and the last one nil;
\* or, forever, a loop whose body leaves its condition alone:
\*   { let v1 = T; ... let vk = T; let vk+1;
\*     while (v1) { print 1; v1 = v2; ... vk = vk+1; }  print 2; }
\*   { let v1 = T;  while (v1) { print 1; }  print 2; }
MaxIter == 3
TruthyKinds == {"zero", "empty", "one", "text"}
WhileInputs ==
    {t \in TruthyKinds \X (0..MaxIter) \X BOOLEAN : t[3] => t[2] = 1}

Truthy(kind) ==
    CASE kind = "zero" -> Num(0)
      [] kind = "empty" -> Str(<<>>)
      [] kind = "one" -> Num(1)
      [] kind = "text" -> Str(<<"s">>)

VarName(i) == <<"v">> \o NatChars(i)

TreeWhile(t) ==
    LET k == t[2]
        lets == [i \in 1..k |-> Let(VarName(i), Truthy(t[1]))]
                \o (IF t[3] THEN <<>> ELSE <<Let(VarName(k + 1), nullptr)>>)
        shift == IF t[3] THEN <<>>
                 ELSE [i \in 1..k |-> Stmt(Assign(VarName(i), Var(VarName(i + 1))))]
    IN  ProgramNode(<<BlockStmt(
            lets
            \o <<WhileStmt(Var(VarName(1)),
                           BlockStmt(<<PrintStmt(Num(1))>> \o shift))>>
            \o <<PrintStmt(Num(2))>>)>>)

\* an init body that reads or calls a name of its class: another method x,
\* declared before or after init, the class K itself, or init:
\*   { class K { fn x() {}  fn init() { USE; print 1; } }  K();  print 2; }
\*   { class K { fn init() { USE; print 1; }  fn x() {} }  K();  print 2; }
MemberNames == {"x", "K", "i"}
MethodInputs == MemberNames \X {"read", "call"} \X {"before", "after"}

MemberName(m) == IF m = "i" THEN InitMethod ELSE <<m>>

TreeMethod(t) ==
    LET use == IF t[2] = "read" THEN Stmt(Var(MemberName(t[1])))
               ELSE Stmt(Call(Var(MemberName(t[1])), <<>>))
        init == Fn(InitMethod, <<>>, <<use, PrintStmt(Num(1))>>)
        x == Fn(<<"x">>, <<>>, <<>>)
    IN  ProgramNode(<<BlockStmt(
            <<ClassNode(<<"K">>, IF t[3] = "before" THEN <<x, init>> ELSE <<init, x>>),
              Stmt(Call(Var(<<"K">>), <<>>)),
              PrintStmt(Num(2))>>)>>)

\* the value of an expression, bound to r and used as a condition:
\*   { fn f() {}  class K {}  let r = E;  if (E) print 1; else print 0; }
\* E being a literal (the number 0, the empty string, a literal node made
\* of another token, as Parser::primary makes them), a binary expression
\* (+ of numbers, + of strings, -, ==, <), a call of f or of K, or f or K
ValueKinds ==
    {"number", "string", "literal", "sum", "concat", "difference", "equal",
     "less", "call-function", "call-class", "function", "class"}

ValueExpr(kind) ==
    CASE kind = "number" -> Num(0)
      [] kind = "string" -> Str(<<>>)
      [] kind = "literal" -> LiteralExpr(Tok("SEMICOLON", <<";">>))
      [] kind = "sum" -> Bin(Num(1), "PLUS", Num(2))
      [] kind = "concat" -> Bin(Str(<<"a">>), "PLUS", Str(<<"b">>))
      [] kind = "difference" -> Bin(Num(1), "MINUS", Num(1))
      [] kind = "equal" -> BinaryExpr(Num(1), Tok("EQUAL_EQUAL", <<"=", "=">>), Num(1))
      [] kind = "less" -> BinaryExpr(Num(1), Tok("LESS", <<"<">>), Num(2))
      [] kind = "call-function" -> Call(Var(<<"f">>), <<>>)
      [] kind = "call-class" -> Call(Var(<<"K">>), <<>>)
      [] kind = "function" -> Var(<<"f">>)
      [] kind = "class" -> Var(<<"K">>)

TreeValue(kind) ==
    ProgramNode(<<BlockStmt(
        <<Fn(<<"f">>, <<>>, <<>>),
          ClassNode(<<"K">>, <<>>),
          Let(<<"r">>, ValueExpr(kind)),
          IfStmt(ValueExpr(kind), PrintStmt(Num(1)), PrintStmt(Num(0)))>>)>>)

Trees ==
    {ProgramNode(<<>>)}
    \cup {ProgramNode(<<PrintStmt(Num(n))>>) : n \in 0..MaxLiteral}
    \cup {TreeError(t) : t \in ErrorInputs}
    \cup {TreeClosure(t) : t \in ClosureInputs}
    \cup {TreeShadow(t) : t \in ShadowInputs}
    \cup {TreeAssign(t) : t \in AssignInputs}
    \cup {TreeOrder(t) : t \in OrderInputs}
    \cup {TreeConst(t) : t \in ConstInputs}
    \cup {TreeRestore(t) : t \in RestoreInputs}
    \cup {TreeArity(t) : t \in ArityInputs}
    \cup {TreeDup(t) : t \in DupInputs}
    \cup {TreeScope(t) : t \in ScopeInputs}
    \cup {TreeType(t) : t \in TypeInputs}
    \cup {TreeCall(t) : t \in CallInputs}
    \cup {TreeKlass(t) : t \in KlassInputs}
    \cup {TreeWhile(t) : t \in WhileInputs}
    \cup {TreeMethod(t) : t \in MethodInputs}
    \cup {TreeValue(kind) : kind \in ValueKinds}

(***************************************************************************)
(* MemoryManager.  `allocations` maps a name to [address, size].  An       *)
(* address is the number of the heap block, in the order malloc handed     *)
(* them out, NullAddress when malloc failed; blocks[b] counts the calls of *)
(* free on block b.  `last` is the latest call made on the manager.        *)
(***************************************************************************)
NullAddress == 0

MaxBlocks == 3
BlockNames == {"a", "b"}
BlockSizes == {0, 8}

MemoryManager ==
    [allocations |-> <<>>, blocks |-> <<>>, last |-> [op |-> "new", name |-> ""]]

\* free(address): free(NULL) does nothing
free(blocks, address) ==
    IF address = NullAddress THEN blocks ELSE [blocks EXCEPT ![address] = @ + 1]

(***************************************************************************)
(* The pipeline of main(): parse, analyze, generate, execute.              *)
(***************************************************************************)
NoParser == [kind |-> "none"]

NotConstructed ==
    [envs |-> <<>>, globals |-> NullEnv, environment |-> NullEnv, block |-> "none",
     uses |-> 0, lastValue |-> Nil, out |-> <<>>, status |-> "none",
     message |-> NoMessage, fuel |-> MaxFuel]

InitRest ==
    /\ decls = <<>>
    /\ sem = [sv |-> SemanticVisitor, next |-> 1]
    /\ codegen = [out |-> <<>>, reported |-> <<>>]
    /\ interp = [v |-> NotConstructed, next |-> 1, reported |-> <<>>]
    /\ memory = MemoryManager

\* main() with a source file: Lexer lexer(sourceCode); Parser parser(lexer);
Init ==
    /\ \E source \in Sources : parser = Parser(Lexer(source))
    /\ phase = "parse"
    /\ ast = nullptr
    /\ InitRest

\* a caller other than main() that builds a tree from the node
\* constructors and hands it to SemanticAnalyzer::analyze,
\* CodeGenerator::generate and Interpreter::execute, in the order of main();
\* it constructs no Lexer and no Parser
InitTree ==
    /\ ast \in Trees
    /\ phase = "analyze"
    /\ parser = NoParser
    /\ InitRest

\* Parser::parse, one iteration of its loop; an exception leaves the loop
\* for the catch clause, which reports, synchronizes and falls through to
\* the return
ParseDeclaration ==
    /\ phase = "parse"
    /\ parser.currentToken.type # "END_OF_FILE"
    /\ LET d == Parser_declaration(parser) IN
       IF d.thrown = NoThrow
       THEN /\ parser' = d.p
            /\ decls' = Append(decls, d.node)
            /\ UNCHANGED <<phase, ast>>
       ELSE /\ parser' = Parser_synchronize(
                             [d.p EXCEPT !.reported =
                                 Append(@, <<"Error while parsing: ", d.thrown>>)])
            /\ ast' = ProgramNode(decls)
            /\ phase' = "analyze"
            /\ UNCHANGED decls
    /\ UNCHANGED <<sem, codegen, interp, memory>>

\* Parser::parse, the loop ends at END_OF_FILE
ParseReturn ==
    /\ phase = "parse"
    /\ parser.currentToken.type = "END_OF_FILE"
    /\ ast' = ProgramNode(decls)
    /\ phase' = "analyze"
    /\ UNCHANGED <<parser, decls, sem, codegen, interp, memory>>

\* SemanticVisitor::visit(ProgramNode*), one declaration
AnalyzeDeclaration ==
    /\ phase = "analyze"
    /\ sem.next <= Len(ast.declarations)
    /\ sem' = [sv |-> analyze(ast.declarations[sem.next], sem.sv),
               next |-> sem.next + 1]
    /\ UNCHANGED <<phase, parser, decls, ast, codegen, interp, memory>>

\* SemanticAnalyzer::analyze returns: its local visitor is destroyed
AnalyzeReturn ==
    /\ phase = "analyze"
    /\ sem.next > Len(ast.declarations)
    /\ sem' = [sem EXCEPT !.sv = SemanticVisitor_destroy(@)]
    /\ phase' = "generate"
    /\ UNCHANGED <<parser, decls, ast, codegen, interp, memory>>

\* main(): CodeGenerator codegen; codegen.generate(ast);
Generate ==
    /\ phase = "generate"
    /\ codegen' = CodeGenerator_generate(ast)
    /\ phase' = "execute"
    /\ UNCHANGED <<parser, decls, ast, sem, interp, memory>>

\* Interpreter::execute: `InterpreterVisitor visitor;`, with any of the
\* outcomes that make a run of `ast` of their own
ExecuteConstruct ==
    /\ phase = "execute"
    /\ \E outcome \in ConstructorOutcomes(ast) :
           interp' = [interp EXCEPT !.v = InterpreterVisitor(outcome)]
    /\ phase' = "run"
    /\ UNCHANGED <<parser, decls, ast, sem, codegen, memory>>

\* InterpreterVisitor::visit(ProgramNode*), one declaration; a
\* std::exception leaves the try block of Interpreter::execute, which
\* destroys the visitor, for the catch clause, which reports it
ExecuteDeclaration ==
    /\ phase = "run"
    /\ interp.v.status = "ok"
    /\ interp.next <= Len(ast.declarations)
    /\ \E v1 \in {accept(ast.declarations[interp.next], interp.v)} :
           IF Thrown(v1)
           THEN /\ \E v2 \in {InterpreterVisitor_destroy(v1)} :
                       interp' = IF v2.status = "fault"
                                 THEN [interp EXCEPT !.v = v2]
                                 ELSE [interp EXCEPT
                                          !.v = v2,
                                          !.reported =
                                              Append(@, <<"Runtime error: ",
                                                          v2.message>>)]
                /\ phase' = "done"
           ELSE /\ interp' = [interp EXCEPT !.v = v1, !.next = @ + 1]
                /\ UNCHANGED phase
    /\ UNCHANGED <<parser, decls, ast, sem, codegen, memory>>

\* the end of the try block of Interpreter::execute destroys the visitor
ExecuteReturn ==
    /\ phase = "run"
    /\ interp.v.status = "ok"
    /\ interp.next > Len(ast.declarations)
    /\ interp' = [interp EXCEPT !.v = InterpreterVisitor_destroy(@)]
    /\ phase' = "done"
    /\ UNCHANGED <<parser, decls, ast, sem, codegen, memory>>

Next ==
    \/ ParseDeclaration
    \/ ParseReturn
    \/ AnalyzeDeclaration
    \/ AnalyzeReturn
    \/ Generate
    \/ ExecuteConstruct
    \/ ExecuteDeclaration
    \/ ExecuteReturn

Spec == Init /\ [][Next]_vars

NextTree ==
    \/ AnalyzeDeclaration
    \/ AnalyzeReturn
    \/ Generate
    \/ ExecuteConstruct
    \/ ExecuteDeclaration
    \/ ExecuteReturn

SpecTree == InitTree /\ [][NextTree]_vars

\* a text scanned to its end: the scanner before the first call of nextToken
InitLexer ==
    /\ \E text \in Texts :
           parser = [lexer |-> Lexer(text),
                     currentToken |-> Token("UNKNOWN", <<>>, 0),
                     reported |-> <<>>]
    /\ phase = "lex"
    /\ ast = nullptr
    /\ InitRest

\* one call of Lexer::nextToken; the scanner may be called again after it
\* has returned END_OF_FILE
NextToken ==
    /\ phase = "lex"
    /\ LET r == Lexer_nextToken(parser.lexer)
       IN  parser' = [parser EXCEPT !.lexer = r.lx, !.currentToken = r.tok]
    /\ UNCHANGED <<phase, decls, ast, sem, codegen, interp, memory>>

SpecLexer == InitLexer /\ [][NextToken]_vars

\* a MemoryManager used on its own
InitMemory ==
    /\ phase = "memory"
    /\ parser = Parser(Lexer(<<>>))
    /\ ast = nullptr
    /\ InitRest

\* MemoryManager::allocate(name, size); malloc returns a new block or NULL
Allocate ==
    /\ phase = "memory"
    /\ Len(memory.blocks) < MaxBlocks
    /\ \E name \in BlockNames, size \in BlockSizes, failed \in BOOLEAN :
           LET addr == IF failed THEN NullAddress ELSE Len(memory.blocks) + 1
               last == [op |-> "allocate", name |-> name]
           IN  IF addr # NullAddress
               THEN memory' = [allocations |->
                                   (name :> [address |-> addr, size |-> size])
                                   @@ memory.allocations,
                               blocks |-> Append(memory.blocks, 0),
                               last |-> last]
               ELSE memory' = [memory EXCEPT !.last = last]
    /\ UNCHANGED <<phase, parser, decls, ast, sem, codegen, interp>>

\* MemoryManager::deallocate(name)
Deallocate ==
    /\ phase = "memory"
    /\ \E name \in BlockNames :
           LET last == [op |-> "deallocate", name |-> name] IN
           IF name \in DOMAIN memory.allocations
           THEN memory' =
                    [allocations |->
                         [n \in DOMAIN memory.allocations \ {name} |->
                              memory.allocations[n]],
                     blocks |-> free(memory.blocks,
                                     memory.allocations[name].address),
                     last |-> last]
           ELSE memory' = [memory EXCEPT !.last = last]
    /\ UNCHANGED <<phase, parser, decls, ast, sem, codegen, interp>>

\* MemoryManager::~MemoryManager(): free of every registered address
Destroy ==
    /\ phase = "memory"
    /\ memory' =
           [memory EXCEPT
               !.blocks =
                   [b \in DOMAIN memory.blocks |->
                        memory.blocks[b]
                        + Cardinality({n \in DOMAIN memory.allocations :
                                           memory.allocations[n].address = b})],
               !.last = [op |-> "destroy", name |-> ""]]
    /\ phase' = "destroyed"
    /\ UNCHANGED <<parser, decls, ast, sem, codegen, interp>>

SpecMemory == InitMemory /\ [][Allocate \/ Deallocate \/ Destroy]_vars

(***************************************************************************)
(* Claims.  `source` is the text main() read; the parser keeps it.         *)
(***************************************************************************)
source == parser.lexer.source
parsed == phase # "parse"
\* the process has died of a memory fault
died == interp.v.status = "fault"
\* main() has come to its end, the evaluator destroyed
finished == phase = "done" /\ ~died
evaluating == phase = "run" /\ interp.v.status = "ok"
\* the lines the evaluator wrote to std::cout; on the standard output of
\* main() they follow the lines of the code generator
printed == interp.v.out
stdout == codegen.out \o printed

\* C1: for every integer literal n, lexing and parsing `print n;` yields a
\* Print statement whose expression is the Literal carrying the NUMBER token
\* with lexeme n, and evaluating it prints the decimal form of n.
C1_PrintLiteral ==
    \A n \in 0..MaxLiteral :
        source = SrcPrintLiteral(n) /\ parsed =>
            /\ ast = ProgramNode(<<PrintStmt(Num(n))>>)
            /\ (finished => printed = <<NatChars(n)>>)

\* the grouping the grammar gives a op1 b op2 c
ExpectedArith(t) ==
    IF t[2] \in {"PLUS", "MINUS"} /\ t[4] \in {"STAR", "SLASH"}
    THEN Bin(Num(t[1]), t[2], Bin(Num(t[3]), t[4], Num(t[5])))
    ELSE Bin(Bin(Num(t[1]), t[2], Num(t[3])), t[4], Num(t[5]))

\* C2: `a op1 b op2 c` parses to Binary nodes whose op is the operator token
\* consumed between the two operands, grouped left-associatively with * and /
\* binding tighter than + and -; `print 1 + 2 * 3;` prints 7.
C2_BinaryGrouping ==
    \A t \in ArithInputs :
        source = SrcArith(t[1], t[2], t[3], t[4], t[5]) /\ parsed =>
            /\ ast = ProgramNode(<<PrintStmt(ExpectedArith(t))>>)
            /\ (finished /\ t = <<1, "PLUS", 2, "STAR", 3>> => printed = << <<"7">> >>)

\* C3: `fn NAME(p1, ..., pn) { body }` at top level or inside a block is
\* accepted without a parse error and yields Function(NAME, [p1..pn], body);
\* `fn add(a, b) { print a + b; } add(2, 3);` prints 5.
C3_FunctionDeclaration ==
    /\ \A t \in FnInputs :
           source = SrcFnInput(t) /\ parsed =>
               parser.reported = <<>> /\ ast = TreeFnInput(t)
    /\ source = SrcAdd /\ parsed =>
           /\ parser.reported = <<>> /\ ast = TreeAdd
           /\ (finished => printed = << <<"5">> >>)

\* C4: `class NAME { ... }` where a declaration is expected is accepted
\* without a parse error and yields Class(NAME, methods); calling the class
\* returns an Instance: `class C {} let c = C(); print c;` prints
\* <instance of <class C>>.
C4_ClassDeclaration ==
    /\ \A t \in ClassInputs :
           source = SrcClassInput(t) /\ parsed =>
               parser.reported = <<>> /\ ast = TreeClassInput(t)
    /\ source = SrcInstance /\ parsed =>
           /\ parser.reported = <<>> /\ ast = TreeInstance
           /\ (finished => printed = << <<"<", "i", "n", "s", "t", "a", "n", "c", "e",
                                         " ", "o", "f", " ", "<", "c", "l", "a", "s",
                                         "s", " ", "C", ">", ">">> >>)

\* the node parse() appends for a well-formed statement standing alone
NodeOf(text) == Parser_declaration(Parser(Lexer(text))).node

\* C5: after a parse error in one statement the parser resumes: every
\* well-formed declaration that follows the malformed one, and every one
\* that precedes it, is in the Program that parse() returns.
C5_ParsingResumes ==
    \A t \in RecoveryInputs :
        source = SrcRecovery(t) /\ parsed =>
            /\ NodeOf(SrcLet(<<"y">>, t[3])) \in Range(ast.declarations)
            /\ (t[4] = 1 => NodeOf(SrcPrintLiteral(t[1])) \in Range(ast.declarations))

\* C6: a runtime error raised while a function body or an init body is
\* executing propagates out of the call: the rest of the body (print 2) and
\* the rest of the caller's top-level declaration (print 3) are not
\* executed, and exactly one diagnostic is reported.
C6_ErrorLeavesCall ==
    \A t \in ErrorInputs :
        ast = TreeError(t) /\ finished =>
            /\ <<"2">> \notin Range(printed)
            /\ <<"3">> \notin Range(printed)
            /\ Len(interp.reported) = 1

\* C7: a Function value shares the environment it was declared in: when a
\* variable of that environment, or of one enclosing it, is assigned after
\* the declaration, by the declaring code or by another function closing
\* over the same environment, the next call reads the new value.  The first
\* call prints the value at declaration, the call after the assignment the
\* assigned one.
C7_ClosureShared ==
    \A t \in ClosureInputs :
        ast = TreeClosure(t) /\ finished =>
            printed = <<NatChars(t[1]), NatChars(t[2])>>

\* a run of C7's case: another function assigned the captured variable of
\* the declaring environment and the next call printed the new value
C7_Witness ==
    \E t \in ClosureInputs :
        /\ t[1] # t[2] /\ t[3] = "function" /\ t[4] = 0
        /\ ast = TreeClosure(t) /\ finished /\ interp.v.status = "ok"
        /\ printed = <<NatChars(t[1]), NatChars(t[2])>>

\* C8: when a Block defines with let a name bound in an enclosing
\* environment, reads inside the block yield the inner value and reads after
\* the block the unchanged outer one: the tree of
\* let x = n; { let x = m; print x; } print x; is evaluated to its end and
\* outputs m then n.
C8_BlockShadowing ==
    [][\A t \in ShadowInputs :
           ast = TreeShadow(t) /\ evaluating =>
               /\ ~died'
               /\ (finished' => printed' = <<NatChars(t[2]), NatChars(t[1])>>)]_vars

\* the innermost scope that binds x (0: none)
Innermost(binds) ==
    IF \E i \in DOMAIN binds : binds[i]
    THEN CHOOSE i \in DOMAIN binds :
             binds[i] /\ \A j \in DOMAIN binds : binds[j] => j <= i
    ELSE 0

\* what the binding scopes print once the scope nested in them has ended
RECURSIVE Unwind(_, _)
Unwind(binds, i) ==
    IF i = 0 THEN <<>>
    ELSE (IF binds[i] THEN <<IF i = Innermost(binds) THEN <<"2">> ELSE <<"1">>>>
          ELSE <<>>)
         \o Unwind(binds, i - 1)

UndefinedVariable(name) == <<"Undefined variable", name>>
Unbound(name) == \A e \in DOMAIN interp.v.envs : name \notin DOMAIN interp.v.envs[e].values

AssignOutcome(binds) ==
    IF Innermost(binds) = 0
    THEN /\ interp.v.status = "thrown"
         /\ interp.v.message = UndefinedVariable(<<"x">>)
         /\ Unbound(<<"x">>)
         /\ UndefinedVariable(<<"x">>) \in Range(sem.sv.reported)
    ELSE /\ interp.v.status = "ok"
         /\ printed = << <<"2">> >> \o Unwind(binds, Len(binds) - 1)

\* C9: assigning a name bound nowhere in the chain of environments raises
\* the UndefinedVariable runtime error and creates no binding in any
\* environment, and the semantic analyzer reports the undefined name; when
\* the name is bound, only the innermost binding is updated.  A program of
\* top-level statements is evaluated to its end or to that error.
C9_AssignDoesNotCreate ==
    [][\A t \in AssignInputs :
           ast = TreeAssign(t) /\ evaluating =>
               /\ (~t[2] => ~died')
               /\ (finished' => AssignOutcome(t[1])')]_vars

\* what E prints and the error it ends with
ExpectedOrder(t) ==
    CASE t[1] = "both" ->
            [out |-> << <<"1">>, <<"2">> >>,
             message |-> IF t[2] = "PLUS"
                         THEN <<"Operands must be two numbers or two strings">>
                         ELSE <<"Operand must be a number">>]
      [] t[1] = "left-error" ->
            [out |-> <<>>, message |-> UndefinedVariable(<<"u">>)]
      [] t[1] = "right-error" ->
            [out |-> << <<"1">> >>, message |-> UndefinedVariable(<<"u">>)]
      [] t[1] = "two-errors" ->
            [out |-> <<>>, message |-> UndefinedVariable(<<"u">>)]
      [] t[1] = "args" ->
            [out |-> << <<"1">>, <<"2">>, <<"3">> >>, message |-> NoMessage]
      [] t[1] = "not-callable" ->
            [out |-> << <<"1">>, <<"2">> >>,
             message |-> <<"Can only call functions and classes">>]
      [] t[1] = "arity" ->
            [out |-> << <<"1">>, <<"2">>, <<"1">> >>,
             message |-> <<"Expected arguments", 2, 3>>]
      [] t[1] = "callee-error" ->
            [out |-> <<>>, message |-> UndefinedVariable(<<"u">>)]
      [] t[1] = "callee-first" ->
            [out |-> << <<"1">>, <<"2">> >>,
             message |-> <<"Can only call functions and classes">>]

\* C10: subexpressions are evaluated strictly left to right: the left
\* operand of a Binary completes, side effects and error included, before
\* the right one starts; in a Call the callee is evaluated before any
\* argument and the arguments in textual order, all of them before the
\* callee's type and arity are checked.
C10_LeftToRight ==
    \A t \in OrderInputs :
        ast = TreeOrder(t) /\ finished =>
            /\ printed = ExpectedOrder(t).out
            /\ interp.v.message = ExpectedOrder(t).message

\* a run of C10's case: both arguments of a call were evaluated, in textual
\* order, before the callee was found not to be callable
C10_Witness ==
    /\ ast = TreeOrder(<<"not-callable", "RPAREN">>)
    /\ finished
    /\ printed = << <<"1">>, <<"2">> >>
    /\ interp.v.message = <<"Can only call functions and classes">>

analyzed == phase \notin {"parse", "analyze"}
AssignToConst(name) == <<"Cannot assign to const variable", name>>

\* the kind of declaration that introduced the symbol x = 1; resolves to
ResolvedKind(t) == IF t[2] # "none" /\ t[3] THEN t[2] ELSE t[1]

\* C11: during semantic analysis an Assign whose target resolves through
\* the scope chain to a symbol introduced by fn or class reports the
\* assign-to-const diagnostic (once), and one whose target resolves to a
\* symbol introduced by let or a parameter never does.
C11_AssignToConst ==
    \A t \in ConstInputs :
        ast = TreeConst(t) /\ analyzed =>
            /\ ResolvedKind(t) \in {"fn", "class"} =>
                   Len(SelectSeq(sem.sv.reported,
                                 LAMBDA m : m = AssignToConst(<<"x">>))) = 1
            /\ ResolvedKind(t) \in {"let", "param"} =>
                   AssignToConst(<<"x">>) \notin Range(sem.sv.reported)

\* a run of C11's case: a class name shadowing a let was assigned in the
\* block and the analysis reported it
C11_Witness ==
    /\ ast = TreeConst(<<"let", "class", TRUE>>)
    /\ analyzed
    /\ AssignToConst(<<"x">>) \in Range(sem.sv.reported)

\* the tokens the parser has not consumed yet, currentToken included
RECURSIVE TokensLeft(_)
TokensLeft(p) ==
    IF p.currentToken.type = "END_OF_FILE" THEN 0
    ELSE 1 + TokensLeft(Parser_advance(p))

\* the parser at every cursor position of its source text
PositionsOf(p) ==
    {Parser_advance([p EXCEPT !.lexer.currentIndex = i]) :
         i \in 0..Len(p.lexer.source)}

\* a loop iteration that started at p and ended as r raised a parse error
\* or consumed a token
Consumed(p, r) == r.thrown # NoThrow \/ TokensLeft(r.p) < TokensLeft(p)

\* one iteration, started at p, of each loop of the parser: declarations
\* (top level, block body, function body), arguments, parameters, class
\* body, synchronize
LoopsConsume(p) ==
    LET type == p.currentToken.type IN
    /\ type # "END_OF_FILE" => Consumed(p, invoke("declaration", p, nullptr))
    /\ Consumed(p, invoke("expression", p, nullptr))
    /\ Consumed(p, invoke("consume", p, "IDENTIFIER"))
    /\ type \notin {"RBRACE", "END_OF_FILE"} =>
           IF type = "FN" THEN Consumed(p, invoke("parseFunction", p, nullptr))
           ELSE TokensLeft(invoke("advance", p, nullptr)) < TokensLeft(p)
    /\ type # "END_OF_FILE" =>
           TokensLeft(invoke("advance", p, nullptr)) < TokensLeft(p)

\* C12: Parser::parse terminates and returns a Program: every iteration of
\* every loop of the parser, wherever in the text it starts, consumes at
\* least one token or raises a parse error; every step of parse() leaves
\* fewer tokens or returns a ProgramNode, parse errors included.
C12_ParseTerminates ==
    [][phase = "parse" =>
           /\ \A p \in PositionsOf(parser) : LoopsConsume(p)
           /\ \/ phase' = "analyze" /\ ast'.kind = "ProgramNode"
              \/ phase' = "parse" /\ TokensLeft(parser') < TokensLeft(parser)]_vars

\* a run of C12's case: the class body loop skipped two tokens that are no
\* methods and met the end of the text; parse() reported the error and
\* returned a Program
C12_Witness ==
    /\ source = SrcSoup(<< <<KwClass, KwClass, <<"x">>, <<"{">> >>,
                          << <<"x">>, <<";">> >> >>)
    /\ parsed
    /\ ast = ProgramNode(<<>>)
    /\ Len(parser.reported) = 2
    /\ parser.currentToken.type = "END_OF_FILE"

\* C13: repeated calls of Lexer::nextToken return the end-of-input token
\* after finitely many calls: every call that does not return end-of-input
\* moves the cursor forward by at least one character, and the cursor never
\* passes the end of the text.
C13_LexerAdvances ==
    [][phase = "lex" =>
           /\ parser'.currentToken.type # "END_OF_FILE" =>
                  parser'.lexer.currentIndex > parser.lexer.currentIndex
           /\ parser'.lexer.currentIndex <= Len(source)]_vars

\* a run of C13's case: a comment, an unknown character and an
\* unterminated string were scanned and the end of the text was returned
C13_Witness ==
    /\ phase = "lex"
    /\ source = <<"/", "/", NL, "@", QUOTE>>
    /\ parser.currentToken.type = "END_OF_FILE"
    /\ parser.lexer.currentIndex = 5

\* what TreeRestore(t) prints: the nest from the innermost x outwards when
\* it ends normally, then the outer x
ExpectedRestore(t) ==
    (IF t[2] = "normal" THEN [i \in 1..t[1] |-> NatChars(t[1] + 2 - i)] ELSE <<>>)
    \o (IF t[2] = "error" /\ t[3] = "block" THEN <<>> ELSE << <<"1">> >>)

\* C14: after a Block or a call body, ended normally or by a runtime error
\* raised at any depth inside it, the evaluator's current environment is the
\* one that was current before, and nested environments are left last in,
\* first out: every declaration that ends without a memory fault leaves the
\* current environment as it found it, and the names read after each nested
\* block are those of the environment around it.  (A loop that is still
\* running when the evaluation stops being followed has not ended.)
C14_EnvironmentRestored ==
    [][evaluating /\ ~died' /\ interp'.v.status # "fuel" =>
           /\ interp'.v.environment = interp.v.environment
           /\ \A t \in RestoreInputs :
                  ast = TreeRestore(t) /\ finished' =>
                      /\ printed' = ExpectedRestore(t)
                      /\ interp'.v.status =
                             IF t[2] = "error" /\ t[3] = "block" THEN "thrown"
                             ELSE "ok"]_vars

\* a run of C14's case: a runtime error was raised three blocks deep in a
\* function body and the statement after the call read the caller's x
C14_Witness ==
    /\ ast = TreeRestore(<<3, "error", "function">>)
    /\ finished
    /\ interp.v.status = "ok"
    /\ printed = << <<"1">> >>
    /\ Len(interp.v.envs) >= 4

ArityMismatch(arity, given) == <<"Expected arguments", arity, given>>
NotCallable == <<"Can only call functions and classes">>

\* C15: calling a Function value with a number of arguments different from
\* its parameter count raises the ArityMismatch runtime error before any
\* call environment is created (the step creates the environment of the
\* block and no other) and before any statement of the body executes
\* (nothing is printed); calling a value that is neither a Function nor a
\* Class raises NotCallable.  With the right number of arguments the call
\* creates its environment and runs the body.  (Of every step that does not
\* end in a memory fault.)
C15_ArityChecked ==
    [][\A t \in ArityInputs :
           ast = TreeArity(t) /\ evaluating /\ interp' # interp /\ ~died' =>
               CASE t[1] = "function" /\ t[2] # t[3] ->
                        /\ interp'.v.status = "thrown"
                        /\ interp'.v.message = ArityMismatch(t[2], t[3])
                        /\ printed' = <<>>
                        /\ Len(interp'.v.envs) = Len(interp.v.envs) + 1
                 [] t[1] = "function" /\ t[2] = t[3] ->
                        /\ interp'.v.status = "ok"
                        /\ printed' = << <<"9">> >>
                        /\ Len(interp'.v.envs) = Len(interp.v.envs) + 2
                 [] OTHER ->
                        /\ interp'.v.status = "thrown"
                        /\ interp'.v.message = NotCallable]_vars

\* a run of C15's case: a function of one parameter was called with two
\* arguments and the error was raised with nothing printed
C15_Witness ==
    /\ ast = TreeArity(<<"function", 1, 2>>)
    /\ finished
    /\ interp.v.message = ArityMismatch(1, 2)
    /\ interp.reported = << <<"Runtime error: ", ArityMismatch(1, 2)>> >>
    /\ printed = <<>>

AlreadyDefined ==
    ("let" :> "Variable already defined") @@ ("fn" :> "Function already defined")
    @@ ("class" :> "Class already defined") @@ ("param" :> "Parameter already defined")

\* the duplicate-definition diagnostics among the reported ones
Duplicates(reported) ==
    SelectSeq(reported, LAMBDA m : m[1] \in Range(AlreadyDefined))

\* C16: the semantic analyzer reports a duplicate-definition diagnostic for
\* a let, fn, class or parameter exactly when its name is already defined
\* in the same (innermost) scope; a name that exists only in an enclosing
\* scope is shadowed without a report.
C16_DuplicateInSameScope ==
    \A t \in DupInputs :
        ast = TreeDup(t) /\ analyzed =>
            Duplicates(sem.sv.reported) =
                IF t[3] THEN << <<AlreadyDefined[t[2]], <<"x">>>> >> ELSE <<>>

\* a run of C16's case: a let in a function body whose name is a parameter
\* of the function was reported
C16_Witness ==
    /\ ast = TreeDup(<<"param", "let", TRUE>>)
    /\ analyzed
    /\ sem.sv.reported = << <<"Variable already defined", <<"x">>>> >>

\* the undefined-name diagnostics among the reported ones
Undefined(reported) == SelectSeq(reported, LAMBDA m : m[1] = "Undefined variable")

\* C17: a Variable or an Assign is reported as undefined exactly when its
\* name has not been defined, earlier in the walk, in the current scope or
\* one enclosing it: a name defined inside a Block, a function body, a
\* parameter list or a class body resolves inside that construct after its
\* definition and no longer once the walk has left the construct.  After
\* the visit of a declaration, as long as the visitor lives, the current
\* scope is the scope before it (the global one) and every scope entered has
\* been left.
C17_ScopedResolution ==
    /\ phase = "analyze" =>
           /\ sem.sv.currentScope = 1
           /\ \A i \in 2..Len(sem.sv.tables) : sem.sv.tables[i].deleted
    /\ \A t \in ScopeInputs :
           ast = TreeScope(t) /\ analyzed =>
               Undefined(sem.sv.reported) =
                   IF t[3] = "inside" THEN <<>>
                   ELSE << UndefinedVariable(<<"x">>) >>

\* a run of C17's case: a parameter was assigned after the walk had left
\* its function and the assignment was reported as undefined
C17_Witness ==
    /\ ast = TreeScope(<<"param", "assign", "after">>)
    /\ analyzed
    /\ sem.sv.reported = << UndefinedVariable(<<"x">>) >>
    /\ Len(sem.sv.tables) = 2

\* where synchronize mode ends when it starts at p: just after the first
\* `;`, or before the first of class, fn, let, if, while, print, or at the
\* end of the text, currentToken being the first token looked at
RECURSIVE SynchronizedFrom(_)
SynchronizedFrom(p) ==
    LET type == p.currentToken.type IN
    IF type = "SEMICOLON" THEN Parser_advance(p)
    ELSE IF type \in {"CLASS", "FN", "LET", "IF", "WHILE", "PRINT", "END_OF_FILE"}
    THEN p
    ELSE SynchronizedFrom(Parser_advance(p))

\* C18: after a parse error the parser discards tokens from the current
\* token on until it has consumed a `;` or the current token is class, fn,
\* let, if, while, print or the end of the text; no `;` and no such keyword
\* that was the current token or a later one at the time of the error is
\* skipped over.
C18_SynchronizeStops ==
    [][phase = "parse" /\ phase' = "analyze"
       /\ Parser_declaration(parser).thrown # NoThrow =>
           LET stop == SynchronizedFrom(Parser_declaration(parser).p) IN
           /\ parser'.currentToken = stop.currentToken
           /\ parser'.lexer = stop.lexer]_vars

\* the end of the line that holds position i of the text (the number of
\* characters before its line end, or the length of the text)
RECURSIVE EndOfLine(_, _)
EndOfLine(text, i) ==
    IF i >= Len(text) \/ text[i + 1] = NL THEN i ELSE EndOfLine(text, i + 1)

\* the number of characters before the first character of the token that
\* follows position i: blanks, line ends and comments come before it
RECURSIVE FirstCharacter(_, _)
FirstCharacter(text, i) ==
    IF i >= Len(text) THEN i
    ELSE IF text[i + 1] \in {" ", "\r", "\t", NL} THEN FirstCharacter(text, i + 1)
    ELSE IF text[i + 1] = "/" /\ i + 1 < Len(text) /\ text[i + 2] = "/"
    THEN FirstCharacter(text, EndOfLine(text, i + 2))
    ELSE i

\* the 1-based number of the line that holds the character after the first
\* i characters of the text
LineOf(text, i) == 1 + Cardinality({j \in 1..i : text[j] = NL})

\* C19: every token returned by Lexer::nextToken carries as `line` the
\* 1-based number of the source line on which its first character lies,
\* string literals that contain line ends and tokens after comments
\* included.
C19_TokenLine ==
    [][phase = "lex" =>
           parser'.currentToken.line =
               LineOf(source, FirstCharacter(source, parser.lexer.currentIndex))]_vars

TypeMismatch == <<"Operand must be a number">>
DivisionByZero == <<"Division by zero">>

\* C20: for the operators -, * and /, whenever either operand is not a
\* number the evaluator raises TypeMismatch, also when the left operand is
\* not a number and the right operand is the number 0; DivisionByZero is
\* raised only for / with two number operands whose right operand is 0.
C20_TypeMismatchFirst ==
    \A t \in TypeInputs :
        ast = TreeType(t) /\ finished =>
            IF t[1] = "string" \/ t[3] = "string"
            THEN interp.v.status = "thrown" /\ interp.v.message = TypeMismatch
            ELSE IF t[2] = "SLASH" /\ t[3] = "zero"
            THEN interp.v.status = "thrown" /\ interp.v.message = DivisionByZero
            ELSE interp.v.status = "ok" /\ Len(printed) = 1

\* what TreeCall(t) prints
ExpectedCall(t) ==
    CASE t[2] = "g" -> << <<"8">> >>
      [] t[2] = "p" -> IF t[3] = "body" THEN <<NatChars(t[4])>> ELSE <<>>
      [] t[2] = "y" -> IF t[3] = "body" THEN << <<"7">> >> ELSE <<>>
      [] t[2] = "c" -> IF t[3] = "after" \/ t[1] = "declaring"
                       THEN << <<"9">> >> ELSE <<>>

\* the names bound in environment e itself
Bound(e) == DOMAIN interp.v.envs[e].values

\* C21: a function call executes the body in a new environment whose
\* enclosing environment is the closure of the function (the declaring
\* block, environment 2), not the caller's current environment: the
\* parameter is bound in the new environment only, a variable bound only in
\* the caller's local environment is not visible in the body, and a let of
\* the body creates no binding in the closure or in the caller.
C21_CallInClosure ==
    \A t \in CallInputs :
        ast = TreeCall(t) =>
            /\ Range(printed) \subseteq Range(ExpectedCall(t))
            /\ finished =>
                   LET call == Len(interp.v.envs) IN
                   /\ printed = ExpectedCall(t)
                   /\ interp.v.envs[call].enclosing = 2
                   /\ Bound(call) = {<<"p">>, <<"y">>}
                   /\ interp.v.envs[call].values[<<"p">>] = stod(NatChars(t[4]))
                   /\ \A e \in 1..(call - 1) :
                          Bound(e) \cap {<<"p">>, <<"y">>} = {}
                   /\ call = IF t[1] = "declaring" THEN 3 ELSE 4
                   /\ t[1] # "declaring" => Bound(3) = {<<"c">>}

\* a run of C21's case: f was called from the body of h, whose local c the
\* body of f could not read, and the environment of the call encloses the
\* declaring block
C21_Witness ==
    /\ ast = TreeCall(<<"function", "c", "body", 1>>)
    /\ finished
    /\ printed = <<>>
    /\ Len(interp.v.envs) = 4
    /\ interp.v.envs[4].enclosing = 2
    /\ interp.v.envs[3].enclosing = 2
    /\ Bound(3) = {<<"c">>}
    /\ Bound(4) = {<<"p">>, <<"y">>}

\* the Class value that visit(ClassNode*) makes of KlassNode(n) when the
\* current environment is e
KlassValue(n, e) ==
    Class(<<"K">>, [name \in {MethodNames[i] : i \in 1..n} |->
                        Function(Fn(name, <<>>, <<>>), e)])

\* what the outer block bound to K
OuterValue(kind) ==
    IF kind = "let" THEN stod(<<"0">>) ELSE Function(Fn(<<"K">>, <<>>, <<>>), 2)

\* C22: after a Class statement the class name is bound in the current
\* (innermost) environment itself to a Class value whose methods are
\* Function values, one per method, closing over the current environment;
\* this is so also when an enclosing environment already binds the name,
\* and that outer binding is unchanged: the read in the declaring block
\* prints the class, the read after it the outer value.
C22_ClassBoundInCurrent ==
    \A t \in KlassInputs :
        ast = TreeKlass(t) /\ finished =>
            LET current == IF t[3] THEN 3 ELSE 2
                outer == valueToString(OuterValue(t[1]))
            IN  /\ <<"K">> \in Bound(current)
                /\ interp.v.envs[current].values[<<"K">>] = KlassValue(t[2], current)
                /\ t[3] /\ t[1] # "none" =>
                       /\ interp.v.envs[2].values[<<"K">>] = OuterValue(t[1])
                       /\ printed = <<Class_toString(KlassValue(t[2], 3)), outer>>
                /\ t[3] /\ t[1] = "none" =>
                       /\ <<"K">> \notin Bound(2)
                       /\ printed = <<Class_toString(KlassValue(t[2], 3))>>
                /\ ~t[3] => printed = <<Class_toString(KlassValue(t[2], 2))>>

\* a run of C22's case: a class of two methods was declared in a block
\* nested in the one that binds its name with let, and the outer binding
\* was read after the nested block
C22_Witness ==
    /\ ast = TreeKlass(<<"let", 2, TRUE>>)
    /\ finished
    /\ interp.v.status = "ok"
    /\ printed = << <<"<", "c", "l", "a", "s", "s", " ", "K", ">">>, <<"0">> >>
    /\ interp.v.envs[3].values[<<"K">>].tag = "class"
    /\ interp.v.envs[3].values[<<"K">>].methods[<<"b">>].closure = 3
    /\ interp.v.envs[2].values[<<"K">>].tag = "number"

\* the while statement of a tree of TreeWhile whose body leaves the
\* condition alone: the second statement of its block
LoopOf(tree) == tree.declarations[1].statements[2]

\* the evaluator where the evaluation was cut off, at the head of the loop
\* with the condition just evaluated and found truthy, and followed again
LoopHead(v) == [v EXCEPT !.status = "ok", !.fuel = MaxFuel]

\* one more turn of the loop from there: the body, then the condition
Iteration(node, head) == accept(node.condition, accept(node.body, head))

\* the turn has left the evaluator as it found it, lastValue (the truthy
\* value of the condition), the current environment and every binding
\* included, but for the line the body printed and the Environment its
\* Block made: the next turn starts where this one did
SameLoopHead(head, after) ==
    /\ isTruthy(head.lastValue)
    /\ after = [head EXCEPT !.out = Append(@, <<"1">>),
                            !.envs = Append(@, Environment(head.environment))]

\* C23: a While statement evaluates its condition before every iteration,
\* executes the body only when the condition is truthy and exits the first
\* time the condition is nil: a loop whose condition holds a truthy value
\* for k evaluations runs its body k times (0 included) and the statement
\* after it executes.  The number 0 and the empty string are truthy: a loop
\* whose condition is a variable holding one of them, and whose body does
\* not raise an error, does not terminate: its body runs as many times as
\* the evaluation is followed (MaxFuel), the statement after it never
\* executes, and a turn of the loop (the body, then the condition) brings the
\* evaluator back to the head of the loop exactly as it was, the condition
\* truthy, but for the output and the environment the turn made, which no
\* later turn reads; so every turn is followed by another.
C23_WhileLoops ==
    \A t \in WhileInputs :
        ast = TreeWhile(t) =>
            IF t[3]
            THEN /\ ~finished
                 /\ <<"2">> \notin Range(printed)
                 /\ interp.v.status \in {"none", "ok", "fault", "fuel"}
                 /\ interp.v.status = "fuel" =>
                        /\ printed = [i \in 1..MaxFuel |-> <<"1">>]
                        /\ SameLoopHead(LoopHead(interp.v),
                                        Iteration(LoopOf(TreeWhile(t)),
                                                  LoopHead(interp.v)))
            ELSE finished =>
                     /\ interp.v.status = "ok"
                     /\ printed = [i \in 1..t[2] |-> <<"1">>] \o << <<"2">> >>

\* a run of C23's case: the loop on a variable holding 0 was followed for
\* MaxFuel iterations and was still running
C23_Witness ==
    /\ ast = TreeWhile(<<"zero", 1, TRUE>>)
    /\ interp.v.status = "fuel"
    /\ Len(printed) = MaxFuel
    /\ interp.v.envs[2].values[<<"v", "1">>] = stod(<<"0">>)

\* the characters that start a token
TokenStarts ==
    Alpha \cup Digit \cup {"_", "/", QUOTE} \cup DOMAIN SingleCharTokens
    \cup DOMAIN TwoCharTokens

\* the 1-based position of the first quote after position i of the text,
\* 0 when there is none
ClosingQuote(text, i) ==
    IF \E j \in (i + 1)..Len(text) : text[j] = QUOTE
    THEN CHOOSE j \in (i + 1)..Len(text) :
             text[j] = QUOTE /\ \A k \in (i + 1)..(j - 1) : text[k] # QUOTE
    ELSE 0

TokenTypes ==
    {"END_OF_FILE", "IDENTIFIER", "NUMBER", "STRING", "UNKNOWN", "SLASH"}
    \cup Range(keywords) \cup Range(SingleCharTokens)
    \cup UNION {Range(TwoCharTokens[c]) : c \in DOMAIN TwoCharTokens}

\* C24: every call of Lexer::nextToken returns a token (the lexer never
\* raises).  When the next token starts with a quote that no later quote
\* closes, the call returns one unknown token and leaves the cursor at the
\* end of the text, so that every later call returns end-of-input; when a
\* later quote closes it, the call returns a string token whose lexeme is
\* exactly the characters between the two quotes; a character that starts
\* no token yields an unknown token whose lexeme is that one character.
C24_LexerNeverRaises ==
    [][phase = "lex" =>
           LET first == FirstCharacter(source, parser.lexer.currentIndex) + 1
               closing == ClosingQuote(source, first)
               token == parser'.currentToken
               after == Lexer_nextToken(parser'.lexer)
           IN  /\ token.type \in TokenTypes
               /\ first <= Len(source) /\ source[first] = QUOTE /\ closing = 0 =>
                      /\ token.type = "UNKNOWN"
                      /\ parser'.lexer.currentIndex = Len(source)
                      /\ after.tok.type = "END_OF_FILE"
                      /\ after.lx = parser'.lexer
               /\ first <= Len(source) /\ source[first] = QUOTE /\ closing # 0 =>
                      /\ token.type = "STRING"
                      /\ token.lexeme = SubSeq(source, first + 1, closing - 1)
                      /\ parser'.lexer.currentIndex = closing
               /\ first <= Len(source) /\ source[first] \notin TokenStarts =>
                      /\ token.type = "UNKNOWN"
                      /\ token.lexeme = <<source[first]>>
                      /\ parser'.lexer.currentIndex = first]_vars

\* a run of C24's case: a terminated string, a character that starts no
\* token and an unterminated string were scanned, the last call returning
\* the unknown token of the unterminated string
C24_Witness ==
    /\ phase = "lex"
    /\ source = <<QUOTE, "a", QUOTE, "@", QUOTE>>
    /\ parser.currentToken = Token("UNKNOWN", <<>>, 1)
    /\ parser.lexer.currentIndex = 5

\* C25: from the construction of the evaluator on, a global environment
\* exists and, whenever no Block and no call body is executing (between
\* the top-level declarations and at the end), the evaluator's current
\* environment is that global environment, never an absent or an
\* uninitialised one.
C25_GlobalEnvironment ==
    phase \in {"run", "done"} =>
        /\ interp.v.globals \in DOMAIN interp.v.envs
        /\ interp.v.envs[interp.v.globals].enclosing = NullEnv
        /\ interp.v.environment = interp.v.globals

\* C26: the semantic analyzer and the evaluator agree on name resolution:
\* when the analyzer reports no undefined-name diagnostic for a tree, the
\* evaluation of the tree does not end with the runtime undefined-variable
\* error; and a name of a class (a method, the class, init) that resolves
\* in the body of init during analysis is bound, at run time, in the
\* environment the methods close over (environment 2, where the class is
\* declared), so that the body of init runs to its end.
C26_ResolutionAgrees ==
    finished /\ Undefined(sem.sv.reported) = <<>> =>
        /\ interp.v.message # <<>> => interp.v.message[1] # "Undefined variable"
        /\ \A t \in MethodInputs :
               ast = TreeMethod(t) =>
                   /\ MemberName(t[1]) \in Bound(2)
                   /\ <<"1">> \in Range(printed)

\* the alternative of Value that each expression of ValueKinds evaluates to
ExpectedTag(kind) ==
    CASE kind \in {"number", "sum", "difference"} -> "number"
      [] kind \in {"string", "concat"} -> "string"
      [] kind \in {"literal", "equal", "less", "call-function"} -> "nil"
      [] kind = "call-class" -> "instance"
      [] kind = "function" -> "function"
      [] kind = "class" -> "class"

\* C27: in every state of the evaluator no runtime Value is a boolean,
\* neither the last value nor a value bound in an environment: literals
\* evaluate to a number, a string or nil, binary expressions to a number,
\* a string or nil, calls to nil or an instance; hence a condition is
\* falsy exactly when it evaluates to nil (the else branch runs for nil,
\* the then branch for every other value, the number 0 and the empty
\* string included).
C27_NoBoolean ==
    /\ interp.v.lastValue.tag # "bool"
    /\ \A e \in DOMAIN interp.v.envs :
           \A name \in Bound(e) : interp.v.envs[e].values[name].tag # "bool"
    /\ \A kind \in ValueKinds :
           ast = TreeValue(kind) /\ finished =>
               /\ interp.v.status = "ok"
               /\ interp.v.envs[2].values[<<"r">>].tag = ExpectedTag(kind)
               /\ printed = IF ExpectedTag(kind) = "nil" THEN << <<"0">> >>
                            ELSE << <<"1">> >>

\* a run of C27's case: the expression 1 == 1 evaluated to nil and, as a
\* condition, selected the else branch
C27_Witness ==
    /\ ast = TreeValue("equal")
    /\ finished
    /\ interp.v.envs[2].values[<<"r">>] = Nil
    /\ printed = << <<"0">> >>

\* C28: across every call of Lexer::nextToken the cursor stays between 0
\* and the length of the text and never decreases, and the text is left
\* alone; advance() reads the character under the cursor before moving it,
\* so a cursor that never passes the length means that no character is read
\* at or after the length.  Once end-of-input has been returned, a further
\* call returns end-of-input again and leaves the cursor and the line
\* unchanged.
C28_CursorInBounds ==
    [][phase = "lex" =>
           LET after == Lexer_nextToken(parser'.lexer) IN
           /\ 0 <= parser.lexer.currentIndex
           /\ parser.lexer.currentIndex <= parser'.lexer.currentIndex
           /\ parser'.lexer.currentIndex <= Len(source)
           /\ parser'.lexer.source = source
           /\ parser.currentToken.type = "END_OF_FILE" => parser' = parser
           /\ parser'.currentToken.type = "END_OF_FILE" =>
                  /\ after.tok = parser'.currentToken
                  /\ after.lx = parser'.lexer]_vars

\* a run of C28's case: a number followed by a dot and a comment that runs
\* to the end of the text were scanned and end-of-input was returned with
\* the cursor at the length of the text
C28_Witness ==
    /\ phase = "lex"
    /\ source = <<"1", ".", "/", "/", "a">>
    /\ parser.currentToken = Token("END_OF_FILE", <<>>, 1)
    /\ parser.lexer.currentIndex = 5
    /\ Lexer_nextToken(parser.lexer).lx = parser.lexer

\* the symbol that a definition of each kind hands to SymbolTable::define
SymbolOf(kind, name) ==
    CASE kind \in {"let", "param"} -> Symbol(name, "", FALSE)
      [] kind = "fn" -> Symbol(name, "function", TRUE)
      [] kind = "class" -> Symbol(name, "class", TRUE)

\* C29: SymbolTable::define of a name already present in the table fails
\* (the duplicate is reported) and leaves the table unchanged: the stored
\* symbol keeps the type and isConst of the first definition, so that an
\* assignment after `fn x` and a duplicate `let x` in the same scope is
\* still reported as an assignment to a const.  define never modifies a
\* parent table: a definition in a nested scope is stored in the table of
\* that scope and the enclosing table keeps the first symbol.
C29_DefineKeepsFirst ==
    \A t \in ConstInputs :
        ast = TreeConst(t) /\ analyzed /\ t[2] # "none" =>
            LET scope == IF t[1] = "param" THEN 2 ELSE 1
                tables == sem.sv.tables
                reported == sem.sv.reported
                x == <<"x">>
            IN  /\ DOMAIN tables[scope].symbols = {x}
                /\ tables[scope].symbols[x] = SymbolOf(t[1], x)
                /\ IF t[3]
                   THEN /\ \E i \in DOMAIN tables :
                               /\ tables[i].parent = scope
                               /\ DOMAIN tables[i].symbols = {x}
                               /\ tables[i].symbols[x] = SymbolOf(t[2], x)
                        /\ Duplicates(reported) = <<>>
                        /\ AssignToConst(x) \in Range(reported)
                               <=> t[2] \in {"fn", "class"}
                   ELSE /\ \A i \in DOMAIN tables :
                               i # scope => x \notin DOMAIN tables[i].symbols
                        /\ Duplicates(reported) = << <<AlreadyDefined[t[2]], x>> >>
                        /\ AssignToConst(x) \in Range(reported)
                               <=> t[1] \in {"fn", "class"}

\* a run of C29's case: `let x` after `fn x` in the same scope was reported
\* as a duplicate, the table kept the function symbol and the assignment
\* to x was reported as an assignment to a const
C29_Witness ==
    /\ ast = TreeConst(<<"fn", "let", FALSE>>)
    /\ analyzed
    /\ sem.sv.tables[1].symbols[<<"x">>] = Symbol(<<"x">>, "function", TRUE)
    /\ sem.sv.reported = << <<"Variable already defined", <<"x">>>>,
                            AssignToConst(<<"x">>) >>

\* C30: for every sequence of allocate and deallocate calls followed by the
\* destruction of the manager, every block that allocate returned is freed
\* exactly once: no block is freed twice at any time, and after the
\* destruction no block is left unfreed, also when allocate was called
\* twice with the same name without a deallocate in between.  A deallocate
\* of a name that is not registered frees nothing and leaves the registry
\* unchanged.
C30_EveryBlockFreedOnce ==
    [][/\ \A b \in DOMAIN memory'.blocks : memory'.blocks[b] <= 1
       /\ phase' = "destroyed" =>
              \A b \in DOMAIN memory'.blocks : memory'.blocks[b] = 1
       /\ memory'.last.op = "deallocate"
          /\ memory'.last.name \notin DOMAIN memory.allocations =>
              /\ memory'.allocations = memory.allocations
              /\ memory'.blocks = memory.blocks]_vars

====
